---- MODULE Spec2Model ----
(***************************************************************************)
(* Model of bath's export-composition engine (src/export.rs, src/config.rs)*)
(* together with what drives it: the profile store that is filled one      *)
(* entry at a time, the catalog of variable definitions of the TUI         *)
(* (src/tui/state.rs, src/tui/select.rs, src/db.rs), the command line of   *)
(* `export` (src/main.rs) and the shell that evaluates what is printed.    *)
(*                                                                         *)
(* A Rust String is modelled as a sequence of one-character strings, so    *)
(* that the character loop of the quoting function and the format!         *)
(* templates are computed character by character.                          *)
(***************************************************************************)
EXTENDS Integers, Sequences, FiniteSets, TLC

VARIABLES
    profiles,       \* AppState.profiles: a sequence of [name, entries]
    active_profile_index, \* AppState.active_profile_index (counted from 1)
    profiles_table, \* table profiles of the store: name -> entries
    pc,             \* "edit" | "exported" | "line" | "evaluated" | "line_evaluated"
                    \* | "failed" | "usage"
    mode,           \* OperationMode of the last export ("none" before)
    out,            \* String returned by generate_full_export / generate_export_line
    stdout,         \* what export_profile printed
    shell_before,   \* the invoking shell's variables before eval
    shell_after,    \* the invoking shell's variables after eval
    shell_ok,       \* FALSE when the shell could not evaluate the text
    custom_vars,    \* table custom_vars of the store: name -> [kind, separator]
    custom_var_defs, \* AppState.custom_var_defs
    var_options,    \* AppState.var_options
    status,         \* AppState.status, as the pieces of the formatted text
    argv,           \* the command line of `export`: [mode, profile]
    result,         \* how main ended: "none" | "ok" | "error" | "usage"
    last_key,       \* the key of the Profiles view handled last, what it was
                    \* given and how its handler returned
    config_file,    \* what is at the path of config.toml when the TUI starts
    config,         \* AppState.config
    theme,          \* AppState.theme
    theme_preset,   \* AppState.theme_preset
    editor_state,         \* EnvVarEditorState of the open variable dialog, with the
                    \* call made on it last
    holding         \* AppState.holding: the item or part being moved

vars == <<profiles, active_profile_index, profiles_table, pc, mode, out, stdout, shell_before, shell_after, shell_ok,
          custom_vars, custom_var_defs, var_options, status, argv, result,
          last_key, config_file, config, theme, theme_preset, editor_state, holding>>

\* The variables of the shell, of the TUI's variable catalog and of the
\* command line.
shell_vars == <<shell_before, shell_after, shell_ok>>
catalog_vars == <<custom_vars, custom_var_defs, var_options, status>>
cli_vars == <<argv, result>>
profile_vars == <<profiles, active_profile_index, profiles_table>>
theme_vars == <<config_file, config, theme, theme_preset>>
tui_vars == <<last_key, theme_vars, editor_state, holding>>

\* The entries of the active profile: self.profiles[self.active_profile_index].
entries == profiles[active_profile_index].entries

----------------------------------------------------------------------------
(* Bounds *)

\* Longest profile (number of entries) the model builds.
MaxEntries == 3
\* Longest value typed for the single entry of the line specification.
MaxValLen == 4
\* Longest profile list the profile specification builds.
MaxProfiles == 3

----------------------------------------------------------------------------
(* Characters and strings *)

BS == "\\"
DQ == "\""
NL == "\n"
DOLLAR == "$"
\* The grave accent (command substitution); the lexer accepts no such
\* character inside a string, so the character is written by its name.
BACKTICK == "GRAVE"

RECURSIVE Concat(_)
\* Concatenation of a sequence of strings.
Concat(ss) == IF ss = <<>> THEN <<>> ELSE Head(ss) \o Concat(Tail(ss))

\* All strings over alphabet of length at most n.
StringsUpTo(alphabet, n) == UNION {[1..k -> alphabet] : k \in 0..n}

----------------------------------------------------------------------------
(* src/config.rs: Entry *)

PATH == <<"P", "A", "T", "H">>
CFLAGS == <<"C", "F", "L", "A", "G", "S">>
CC == <<"C", "C">>
XVAR == <<"X">>
CPATH == <<"C", "P", "A", "T", "H">>
C_INCLUDE_PATH == <<"C", "_", "I", "N", "C", "L", "U", "D", "E", "_", "P", "A", "T", "H">>
CPLUS_INCLUDE_PATH == <<"C", "P", "L", "U", "S", "_", "I", "N", "C", "L", "U", "D", "E", "_", "P", "A", "T", "H">>
OBJC_INCLUDE_PATH == <<"O", "B", "J", "C", "_", "I", "N", "C", "L", "U", "D", "E", "_", "P", "A", "T", "H">>
CPPFLAGS == <<"C", "P", "P", "F", "L", "A", "G", "S">>
CXXFLAGS == <<"C", "X", "X", "F", "L", "A", "G", "S">>
LDFLAGS == <<"L", "D", "F", "L", "A", "G", "S">>
LIBRARY_PATH == <<"L", "I", "B", "R", "A", "R", "Y", "_", "P", "A", "T", "H">>
LD_LIBRARY_PATH == <<"L", "D", "_", "L", "I", "B", "R", "A", "R", "Y", "_", "P", "A", "T", "H">>
LD_RUN_PATH == <<"L", "D", "_", "R", "U", "N", "_", "P", "A", "T", "H">>
RANLIB == <<"R", "A", "N", "L", "I", "B">>
CXX == <<"C", "X", "X">>
AR == <<"A", "R">>
STRIP == <<"S", "T", "R", "I", "P">>
GCC_EXEC_PREFIX == <<"G", "C", "C", "_", "E", "X", "E", "C", "_", "P", "R", "E", "F", "I", "X">>
COLLECT_GCC_OPTIONS == <<"C", "O", "L", "L", "E", "C", "T", "_", "G", "C", "C", "_", "O", "P", "T", "I", "O", "N", "S">>
LANG == <<"L", "A", "N", "G">>

PathEntry(path, program, version) ==
    [tag |-> "Path", path |-> path, program |-> program, version |-> version]
CFlag(s) == [tag |-> "CFlag", s |-> s]
CCEntry(s) == [tag |-> "CC", s |-> s]
\* The variants that hold one String: Entry::CPath(s), ..., Entry::Lang(s).
StringVariants ==
    {"CPath", "CInclude", "CPlusInclude", "OBJCInclude", "CPPFlag", "CFlag", "CXXFlag",
     "LDFlag", "LibraryPath", "LDLibraryPath", "LDRunPath", "RanLib", "CC", "CXX", "AR",
     "Strip", "GCCExecPrefix", "CollectGCCOptions", "Lang"}
StringEntry(variant, s) == [tag |-> variant, s |-> s]
CustomScalar(name, value) == [tag |-> "CustomScalar", name |-> name, value |-> value]
CustomPart(name, value, sep) ==
    [tag |-> "CustomPart", name |-> name, value |-> value, separator |-> sep]

\* Entry::var_name
var_name(e) ==
    CASE e.tag = "Path" -> PATH
      [] e.tag = "CPath" -> CPATH
      [] e.tag = "CInclude" -> C_INCLUDE_PATH
      [] e.tag = "CPlusInclude" -> CPLUS_INCLUDE_PATH
      [] e.tag = "OBJCInclude" -> OBJC_INCLUDE_PATH
      [] e.tag = "CPPFlag" -> CPPFLAGS
      [] e.tag = "CFlag" -> CFLAGS
      [] e.tag = "CXXFlag" -> CXXFLAGS
      [] e.tag = "LDFlag" -> LDFLAGS
      [] e.tag = "LibraryPath" -> LIBRARY_PATH
      [] e.tag = "LDLibraryPath" -> LD_LIBRARY_PATH
      [] e.tag = "LDRunPath" -> LD_RUN_PATH
      [] e.tag = "RanLib" -> RANLIB
      [] e.tag = "CC" -> CC
      [] e.tag = "CXX" -> CXX
      [] e.tag = "AR" -> AR
      [] e.tag = "Strip" -> STRIP
      [] e.tag = "GCCExecPrefix" -> GCC_EXEC_PREFIX
      [] e.tag = "CollectGCCOptions" -> COLLECT_GCC_OPTIONS
      [] e.tag = "Lang" -> LANG
      [] e.tag \in {"CustomScalar", "CustomPart"} -> e.name

\* Variant: LD_RUN_PATH is missing from the colon-separated variants.
separator_run_path_space(e) ==
    CASE e.tag \in {"Path", "CPath", "CInclude", "CPlusInclude", "OBJCInclude",
                    "LibraryPath", "LDLibraryPath"} -> <<":">>
      [] e.tag = "CustomPart" -> e.separator
      [] OTHER -> <<" ">>

\* Entry::separator
separator(e) ==
    CASE e.tag \in {"Path", "CPath", "CInclude", "CPlusInclude", "OBJCInclude",
                    "LibraryPath", "LDLibraryPath", "LDRunPath"} -> <<":">>
      [] e.tag = "CustomPart" -> e.separator
      [] OTHER -> <<" ">>

----------------------------------------------------------------------------
(* src/config.rs: CustomVarDef; src/tui/state.rs: the variable catalog *)

CustomVarDef(name, kind, sep) == [name |-> name, kind |-> kind, separator |-> sep]

VarTypeOption(name, kind, sep, editor) ==
    [name |-> name, kind |-> kind, separator |-> sep, editor |-> editor]

builtin_var_options ==
    << VarTypeOption(PATH, "List", <<":">>, "PathPart"),
       VarTypeOption(CPATH, "List", <<":">>, "PartsList"),
       VarTypeOption(C_INCLUDE_PATH, "List", <<":">>, "PartsList"),
       VarTypeOption(CPLUS_INCLUDE_PATH, "List", <<":">>, "PartsList"),
       VarTypeOption(OBJC_INCLUDE_PATH, "List", <<":">>, "PartsList"),
       VarTypeOption(LIBRARY_PATH, "List", <<":">>, "PartsList"),
       VarTypeOption(LD_LIBRARY_PATH, "List", <<":">>, "PartsList"),
       VarTypeOption(LD_RUN_PATH, "List", <<":">>, "PartsList"),
       VarTypeOption(CPPFLAGS, "List", <<" ">>, "PartsList"),
       VarTypeOption(CFLAGS, "List", <<" ">>, "PartsList"),
       VarTypeOption(CXXFLAGS, "List", <<" ">>, "PartsList"),
       VarTypeOption(LDFLAGS, "List", <<" ">>, "PartsList"),
       VarTypeOption(RANLIB, "Scalar", <<>>, "Single"),
       VarTypeOption(CC, "Scalar", <<>>, "Single"),
       VarTypeOption(CXX, "Scalar", <<>>, "Single"),
       VarTypeOption(AR, "Scalar", <<>>, "Single"),
       VarTypeOption(STRIP, "Scalar", <<>>, "Single"),
       VarTypeOption(GCC_EXEC_PREFIX, "Scalar", <<>>, "Single"),
       VarTypeOption(COLLECT_GCC_OPTIONS, "Scalar", <<>>, "Single"),
       VarTypeOption(LANG, "Scalar", <<>>, "Single") >>

\* Iterator::find on a vector of records with a name: [found, item].
find(seq, name) ==
    LET hits == {i \in 1..Len(seq) : seq[i].name = name}
    IN IF hits = {} THEN [found |-> FALSE]
       ELSE [found |-> TRUE, item |-> seq[CHOOSE i \in hits : \A j \in hits : i <= j]]

----------------------------------------------------------------------------
(* src/db.rs: the table custom_vars *)

\* Characters in the order of their code points (the binary collation).
CodeOrder ==
    <<"0", "1", "2", "3", "4", "5", "6", "7", "8", "9",
      "A", "B", "C", "D", "E", "F", "G", "H", "I", "J", "K", "L", "M", "N", "O",
      "P", "Q", "R", "S", "T", "U", "V", "W", "X", "Y", "Z", "_",
      "a", "b", "c", "d", "e", "f", "g", "h", "i", "j", "k", "l", "m", "n", "o",
      "p", "q", "r", "s", "t", "u", "v", "w", "x", "y", "z">>
Code(c) == CHOOSE i \in 1..Len(CodeOrder) : CodeOrder[i] = c

\* a sorts before b.
NameLess(a, b) ==
    \E k \in 1..(Len(a) + 1) :
        /\ k <= Len(b)
        /\ \A j \in 1..(k - 1) : a[j] = b[j]
        /\ (k > Len(a) \/ Code(a[k]) < Code(b[k]))

\* Variant: the kind is stored by the name of its variant.
save_custom_var_def_variant_name(table, def) ==
    (def.name :> [kind |-> def.kind, separator |-> def.separator]) @@ table

\* INSERT OR REPLACE INTO custom_vars: the row of def.name is replaced; the
\* kind is stored as the text "scalar" or "list".
save_custom_var_def(table, def) ==
    (def.name :> [kind |-> IF def.kind = "Scalar" THEN "scalar" ELSE "list",
                  separator |-> def.separator]) @@ table

\* The match on the kind column: any text but "list" and "scalar" is Scalar.
VarKind_of(kind_s) ==
    CASE kind_s = "scalar" -> "Scalar"
      [] kind_s = "list" -> "List"
      [] OTHER -> "Scalar"

\* SELECT name, kind, separator FROM custom_vars ORDER BY name
load_custom_var_defs(table) ==
    LET names == DOMAIN table
        Rank(n) == Cardinality({x \in names : NameLess(x, n)}) + 1
        At(k) == CHOOSE n \in names : Rank(n) = k
    IN [k \in 1..Cardinality(names) |->
            CustomVarDef(At(k), VarKind_of(table[At(k)].kind), table[At(k)].separator)]

\* AppState::refresh_var_options: [custom_var_defs, var_options] read from the table.
refresh_var_options(table) ==
    LET defs == load_custom_var_defs(table)
    IN [custom_var_defs |-> defs,
        var_options |-> builtin_var_options \o
            [i \in 1..Len(defs) |->
                VarTypeOption(defs[i].name, defs[i].kind, defs[i].separator,
                              IF defs[i].kind = "Scalar" THEN "Single" ELSE "PartsList")]]

----------------------------------------------------------------------------
(* src/tui/select.rs *)

\* The lookup of make_part_entry in the custom definitions and its default.
custom_part_entry(var, value) ==
    LET def == find(custom_var_defs, var)
    IN IF def.found
       THEN IF def.item.kind = "Scalar" THEN CustomScalar(def.item.name, value)
            ELSE CustomPart(def.item.name, value, def.item.separator)
       ELSE CustomPart(var, value, <<":">>)

\* The match of make_part_entry on the built-in names: [found, entry].
builtin_part_entry(var, value) ==
    CASE var = PATH -> [found |-> TRUE, entry |-> PathEntry(value, <<>>, <<>>)]
      [] var = CPATH -> [found |-> TRUE, entry |-> StringEntry("CPath", value)]
      [] var = C_INCLUDE_PATH -> [found |-> TRUE, entry |-> StringEntry("CInclude", value)]
      [] var = CPLUS_INCLUDE_PATH -> [found |-> TRUE, entry |-> StringEntry("CPlusInclude", value)]
      [] var = OBJC_INCLUDE_PATH -> [found |-> TRUE, entry |-> StringEntry("OBJCInclude", value)]
      [] var = CPPFLAGS -> [found |-> TRUE, entry |-> StringEntry("CPPFlag", value)]
      [] var = CFLAGS -> [found |-> TRUE, entry |-> StringEntry("CFlag", value)]
      [] var = CXXFLAGS -> [found |-> TRUE, entry |-> StringEntry("CXXFlag", value)]
      [] var = LDFLAGS -> [found |-> TRUE, entry |-> StringEntry("LDFlag", value)]
      [] var = LIBRARY_PATH -> [found |-> TRUE, entry |-> StringEntry("LibraryPath", value)]
      [] var = LD_LIBRARY_PATH -> [found |-> TRUE, entry |-> StringEntry("LDLibraryPath", value)]
      [] var = LD_RUN_PATH -> [found |-> TRUE, entry |-> StringEntry("LDRunPath", value)]
      [] var = RANLIB -> [found |-> TRUE, entry |-> StringEntry("RanLib", value)]
      [] var = CC -> [found |-> TRUE, entry |-> StringEntry("CC", value)]
      [] var = CXX -> [found |-> TRUE, entry |-> StringEntry("CXX", value)]
      [] var = AR -> [found |-> TRUE, entry |-> StringEntry("AR", value)]
      [] var = STRIP -> [found |-> TRUE, entry |-> StringEntry("Strip", value)]
      [] var = GCC_EXEC_PREFIX -> [found |-> TRUE, entry |-> StringEntry("GCCExecPrefix", value)]
      [] var = COLLECT_GCC_OPTIONS -> [found |-> TRUE, entry |-> StringEntry("CollectGCCOptions", value)]
      [] var = LANG -> [found |-> TRUE, entry |-> StringEntry("Lang", value)]
      [] OTHER -> [found |-> FALSE]

\* Variant: the custom definitions are consulted before the built-in names.
make_part_entry_custom_first(var, value) ==
    LET b == builtin_part_entry(var, value)
    IN IF find(custom_var_defs, var).found THEN custom_part_entry(var, value)
       ELSE IF b.found THEN b.entry
       ELSE custom_part_entry(var, value)

make_part_entry(var, value) ==
    LET b == builtin_part_entry(var, value)
    IN IF b.found THEN b.entry ELSE custom_part_entry(var, value)

var_option_for(var) ==
    LET o == find(var_options, var)
    IN IF o.found THEN o.item
       ELSE VarTypeOption(var, "List", <<":">>, "PartsList")

\* select::preview_value: the path of a PATH part, the text of any other entry.
preview_value(e) ==
    CASE e.tag = "Path" -> e.path
      [] e.tag \in StringVariants -> e.s
      [] e.tag \in {"CustomScalar", "CustomPart"} -> e.value

\* The rows of compute_var_rows as name and kind: one row for every option of
\* the catalog, and a List row for every name of the profile's entries that
\* no option has.
compute_var_rows(es) ==
    {[name |-> var_options[i].name, kind |-> var_options[i].kind] :
        i \in 1..Len(var_options)}
      \cup {[name |-> var_name(es[i]), kind |-> "List"] :
              i \in {k \in 1..Len(es) : ~find(var_options, var_name(es[k])).found}}

\* The names of the rows of compute_var_rows: the catalog, then the names of
\* the profile's entries that have no row.
var_row_names(es) ==
    {var_options[i].name : i \in 1..Len(var_options)}
        \cup {var_name(es[i]) : i \in 1..Len(es)}

----------------------------------------------------------------------------
(* src/export.rs *)

Modes == {"Prepend", "Append", "Replace"}

RECURSIVE quote_loop_escape_dollar(_, _, _)
\* Variant: the dollar sign is escaped as well.
quote_loop_escape_dollar(s, i, acc) ==
    IF i > Len(s) THEN acc
    ELSE quote_loop_escape_dollar(s, i + 1,
            CASE s[i] = BS -> acc \o <<BS, BS>>
              [] s[i] = DQ -> acc \o <<BS, DQ>>
              [] s[i] = DOLLAR -> acc \o <<BS, DOLLAR>>
              [] OTHER -> Append(acc, s[i]))

RECURSIVE quote_loop_no_backslash(_, _, _)
\* Variant: only the double quote is escaped, the backslash is copied.
quote_loop_no_backslash(s, i, acc) ==
    IF i > Len(s) THEN acc
    ELSE quote_loop_no_backslash(s, i + 1,
            CASE s[i] = DQ -> acc \o <<BS, DQ>>
              [] OTHER -> Append(acc, s[i]))

RECURSIVE quote_loop(_, _, _)
\* the `for ch in s.chars()` loop of shell_double_quote_literal
quote_loop(s, i, acc) ==
    IF i > Len(s) THEN acc
    ELSE quote_loop(s, i + 1,
            CASE s[i] = BS -> acc \o <<BS, BS>>
              [] s[i] = DQ -> acc \o <<BS, DQ>>
              [] OTHER -> Append(acc, s[i]))

shell_double_quote_literal(s) == quote_loop(s, 1, <<>>)

EXPORT_ == <<"e", "x", "p", "o", "r", "t", " ">>

\* Variant: plain concatenation with the existing value, without ${VAR:+...}.
export_assignment_naive(var, value, sep, m) ==
    LET escaped_value == shell_double_quote_literal(value)
        existing == <<DOLLAR, "{">> \o var \o <<"}">>
    IN CASE m = "Prepend" ->
              EXPORT_ \o var \o <<"=", DQ>> \o escaped_value \o sep \o existing \o <<DQ, ";">>
         [] m = "Append" ->
              EXPORT_ \o var \o <<"=", DQ>> \o existing \o sep \o escaped_value \o <<DQ, ";">>
         [] m = "Replace" ->
              EXPORT_ \o var \o <<"=", DQ>> \o escaped_value \o <<DQ, ";">>

\* Variant: Replace falls through to the Prepend template.
export_assignment_replace_as_prepend(var, value, sep, m) ==
    LET escaped_value == shell_double_quote_literal(value)
        tail == <<DOLLAR, "{">> \o var \o <<":", "+">> \o sep
                \o <<DOLLAR, "{">> \o var \o <<"}", "}">>
        head == <<DOLLAR, "{">> \o var \o <<":", "+">>
                \o <<DOLLAR, "{">> \o var \o <<"}">> \o sep \o <<"}">>
    IN IF m = "Append"
       THEN EXPORT_ \o var \o <<"=", DQ>> \o head \o escaped_value \o <<DQ, ";">>
       ELSE EXPORT_ \o var \o <<"=", DQ>> \o escaped_value \o tail \o <<DQ, ";">>

\* Variant: the Replace statement is not terminated.
export_assignment_no_semicolon(var, value, sep, m) ==
    LET escaped_value == shell_double_quote_literal(value)
        tail == <<DOLLAR, "{">> \o var \o <<":", "+">> \o sep
                \o <<DOLLAR, "{">> \o var \o <<"}", "}">>
        head == <<DOLLAR, "{">> \o var \o <<":", "+">>
                \o <<DOLLAR, "{">> \o var \o <<"}">> \o sep \o <<"}">>
    IN CASE m = "Prepend" ->
              EXPORT_ \o var \o <<"=", DQ>> \o escaped_value \o tail \o <<DQ, ";">>
         [] m = "Append" ->
              EXPORT_ \o var \o <<"=", DQ>> \o head \o escaped_value \o <<DQ, ";">>
         [] m = "Replace" ->
              EXPORT_ \o var \o <<"=", DQ>> \o escaped_value \o <<DQ>>

\* Variant: the separator inside the expansion is quoted like the value.
export_assignment_quoted_sep(var, value, sep, m) ==
    LET escaped_value == shell_double_quote_literal(value)
        escaped_sep == shell_double_quote_literal(sep)
        tail == <<DOLLAR, "{">> \o var \o <<":", "+">> \o escaped_sep
                \o <<DOLLAR, "{">> \o var \o <<"}", "}">>
        head == <<DOLLAR, "{">> \o var \o <<":", "+">>
                \o <<DOLLAR, "{">> \o var \o <<"}">> \o escaped_sep \o <<"}">>
    IN CASE m = "Prepend" ->
              EXPORT_ \o var \o <<"=", DQ>> \o escaped_value \o tail \o <<DQ, ";">>
         [] m = "Append" ->
              EXPORT_ \o var \o <<"=", DQ>> \o head \o escaped_value \o <<DQ, ";">>
         [] m = "Replace" ->
              EXPORT_ \o var \o <<"=", DQ>> \o escaped_value \o <<DQ, ";">>

export_assignment(var, value, sep, m) ==
    LET escaped_value == shell_double_quote_literal(value) IN
    CASE m = "Prepend" ->
            LET tail == <<DOLLAR, "{">> \o var \o <<":", "+">> \o sep
                        \o <<DOLLAR, "{">> \o var \o <<"}", "}">>
            IN EXPORT_ \o var \o <<"=", DQ>> \o escaped_value \o tail \o <<DQ, ";">>
      [] m = "Append" ->
            LET head == <<DOLLAR, "{">> \o var \o <<":", "+">>
                        \o <<DOLLAR, "{">> \o var \o <<"}">> \o sep \o <<"}">>
            IN EXPORT_ \o var \o <<"=", DQ>> \o head \o escaped_value \o <<DQ, ";">>
      [] m = "Replace" ->
            EXPORT_ \o var \o <<"=", DQ>> \o escaped_value \o <<DQ, ";">>

\* Variant: a PATH entry is rendered with its labels, as Display does.
entry_value_with_labels(e) ==
    CASE e.tag = "Path" -> e.path \o <<" ">> \o e.program \o <<" ">> \o e.version
      [] e.tag \in StringVariants -> e.s
      [] e.tag \in {"CustomScalar", "CustomPart"} -> e.value

entry_value(e) ==
    CASE e.tag = "Path" -> e.path
      [] e.tag \in StringVariants -> e.s
      [] e.tag \in {"CustomScalar", "CustomPart"} -> e.value

generate_export_line(e, m) ==
    export_assignment(var_name(e), entry_value(e), separator(e), m)

RECURSIVE join_empty_sep_first_only(_, _)
\* Variant: with an empty separator only the first part is kept.
join_empty_sep_first_only(parts, sep) ==
    IF parts = <<>> THEN <<>>
    ELSE IF Len(parts) = 1 \/ sep = <<>> THEN parts[1]
    ELSE parts[1] \o sep \o join_empty_sep_first_only(Tail(parts), sep)

RECURSIVE join(_, _)
\* [String]::join(sep)
join(parts, sep) ==
    IF parts = <<>> THEN <<>>
    ELSE IF Len(parts) = 1 THEN parts[1]
    ELSE parts[1] \o sep \o join(Tail(parts), sep)

\* Variant: the name is pushed to `order` for every entry, not only when new.
group_step_push_always(st, e) ==
    LET var == var_name(e)
        sep == separator(e)
        fresh == var \notin DOMAIN st.groups
        groups1 == IF fresh THEN st.groups @@ (var :> [sep |-> sep, parts |-> <<>>])
                   ELSE st.groups
    IN [order |-> Append(st.order, var),
        groups |-> [groups1 EXCEPT ![var].parts = Append(@, entry_value(e))]]

\* Variant: a part is put in front of the parts collected so far.
group_step_parts_front(st, e) ==
    LET var == var_name(e)
        sep == separator(e)
        fresh == var \notin DOMAIN st.groups
        order1 == IF fresh THEN Append(st.order, var) ELSE st.order
        groups1 == IF fresh THEN st.groups @@ (var :> [sep |-> sep, parts |-> <<>>])
                   ELSE st.groups
    IN [order |-> order1,
        groups |-> [groups1 EXCEPT ![var].parts = <<entry_value(e)>> \o @]]

\* Variant: the separator of a group is overwritten by every later entry.
group_step_last_sep(st, e) ==
    LET var == var_name(e)
        sep == separator(e)
        fresh == var \notin DOMAIN st.groups
        order1 == IF fresh THEN Append(st.order, var) ELSE st.order
        groups1 == IF fresh THEN st.groups @@ (var :> [sep |-> sep, parts |-> <<>>])
                   ELSE [st.groups EXCEPT ![var].sep = sep]
    IN [order |-> order1,
        groups |-> [groups1 EXCEPT ![var].parts = Append(@, entry_value(e))]]

\* Variant: an entry of a single-valued variable overwrites the parts collected.
group_step_keep_last(st, e) ==
    LET var == var_name(e)
        sep == separator(e)
        fresh == var \notin DOMAIN st.groups
        order1 == IF fresh THEN Append(st.order, var) ELSE st.order
        groups1 == IF fresh THEN st.groups @@ (var :> [sep |-> sep, parts |-> <<>>])
                   ELSE st.groups
    IN [order |-> order1,
        groups |-> [groups1 EXCEPT ![var].parts =
                        IF e.tag \in {"CC", "CustomScalar"} THEN <<entry_value(e)>>
                        ELSE Append(@, entry_value(e))]]

\* One iteration of the first loop of generate_full_export: st = [order, groups].
group_step(st, e) ==
    LET var == var_name(e)
        sep == separator(e)
        fresh == var \notin DOMAIN st.groups
        order1 == IF fresh THEN Append(st.order, var) ELSE st.order
        groups1 == IF fresh THEN st.groups @@ (var :> [sep |-> sep, parts |-> <<>>])
                   ELSE st.groups
    IN [order |-> order1,
        groups |-> [groups1 EXCEPT ![var].parts = Append(@, entry_value(e))]]

RECURSIVE group_loop(_, _, _)
group_loop(es, i, st) ==
    IF i > Len(es) THEN st ELSE group_loop(es, i + 1, group_step(st, es[i]))

\* The `lines` vector built by the second loop of generate_full_export.
export_lines(es, m) ==
    LET st == group_loop(es, 1, [order |-> <<>>, groups |-> <<>>])
    IN [k \in 1..Len(st.order) |->
            LET var == st.order[k]
                g == st.groups[var]
            IN export_assignment(var, join(g.parts, g.sep), g.sep, m)]

generate_full_export(es, m) == join(export_lines(es, m), <<NL>>)

\* Variant: the line is printed even when out is empty.
print_export_always(o) == o \o <<NL>>

\* println!("{out}") unless out is empty
print_export(o) == IF o /= <<>> THEN o \o <<NL>> ELSE <<>>

----------------------------------------------------------------------------
(* The invoking shell: POSIX evaluation of the printed statements.          *)
(* Only what the generated text can contain is evaluated: backslash         *)
(* escapes, $name, ${name} and ${name:+word} inside double quotes. Anything *)
(* else (command substitution, other ${...} forms, a quote inside a word)   *)
(* makes the evaluation fail (ok = FALSE) instead of guessing a result.     *)

NameStart ==
    {"a", "b", "c", "d", "e", "f", "g", "h", "i", "j", "k", "l", "m", "n", "o",
     "p", "q", "r", "s", "t", "u", "v", "w", "x", "y", "z",
     "A", "B", "C", "D", "E", "F", "G", "H", "I", "J", "K", "L", "M", "N", "O",
     "P", "Q", "R", "S", "T", "U", "V", "W", "X", "Y", "Z", "_"}
NameChars == NameStart \cup {"0", "1", "2", "3", "4", "5", "6", "7", "8", "9"}

\* $$, $?, $#, ... : one-character special parameters.
SpecialParams == {DOLLAR, "?", "#", "@", "*", "!", "-"}

RECURSIVE NameEnd(_, _)
\* Index just after the longest run of name characters of s starting at i.
NameEnd(s, i) ==
    IF i <= Len(s) /\ s[i] \in NameChars THEN NameEnd(s, i + 1) ELSE i

\* A shell environment is a function from the names that are set to values.
EnvGet(env, name) == IF name \in DOMAIN env THEN env[name] ELSE <<>>

ScanFail(i) == [ok |-> FALSE, val |-> <<>>, next |-> i]

RECURSIVE DqScan(_, _, _, _)
\* Expands the text of s from index i up to the first unquoted `term` (the
\* closing double quote, or the closing brace of a ${name:+word}).
\* [ok, val, next]: next is the index after the terminator.
DqScan(s, i, term, env) ==
    IF i > Len(s) THEN ScanFail(i)
    ELSE IF s[i] = term THEN [ok |-> TRUE, val |-> <<>>, next |-> i + 1]
    ELSE
      LET c == s[i]
          more == i < Len(s)
          piece ==
            CASE c = BS ->
                   IF more /\ s[i + 1] \in {DOLLAR, BACKTICK, DQ, BS}
                   THEN [ok |-> TRUE, val |-> <<s[i + 1]>>, next |-> i + 2]
                   ELSE IF more /\ s[i + 1] = "}" /\ term = "}" THEN ScanFail(i)
                   ELSE [ok |-> TRUE, val |-> <<BS>>, next |-> i + 1]
              [] c = DQ -> ScanFail(i)
              [] c = BACKTICK -> ScanFail(i)
              [] c = DOLLAR ->
                   IF more /\ s[i + 1] = "{" THEN
                     LET j == NameEnd(s, i + 2)
                         name == SubSeq(s, i + 2, j - 1)
                     IN IF name = <<>> \/ name[1] \notin NameStart \/ j > Len(s)
                        THEN ScanFail(i)
                        ELSE IF s[j] = "}"
                        THEN [ok |-> TRUE, val |-> EnvGet(env, name), next |-> j + 1]
                        ELSE IF s[j] = ":" /\ j < Len(s) /\ s[j + 1] = "+"
                        THEN LET w == DqScan(s, j + 2, "}", env)
                             IN [ok |-> w.ok,
                                 val |-> IF EnvGet(env, name) /= <<>> THEN w.val ELSE <<>>,
                                 next |-> w.next]
                        ELSE ScanFail(i)
                   ELSE IF more /\ s[i + 1] \in NameStart THEN
                     LET j == NameEnd(s, i + 1)
                     IN [ok |-> TRUE, val |-> EnvGet(env, SubSeq(s, i + 1, j - 1)),
                         next |-> j]
                   ELSE IF more /\ s[i + 1] \in SpecialParams THEN
                     [ok |-> TRUE, val |-> EnvGet(env, <<s[i + 1]>>), next |-> i + 2]
                   ELSE IF more /\ s[i + 1] = "(" THEN ScanFail(i)
                   ELSE [ok |-> TRUE, val |-> <<DOLLAR>>, next |-> i + 1]
              [] OTHER -> [ok |-> TRUE, val |-> <<c>>, next |-> i + 1]
      IN IF ~piece.ok THEN ScanFail(i)
         ELSE LET rest == DqScan(s, piece.next, term, env)
              IN [ok |-> rest.ok, val |-> piece.val \o rest.val, next |-> rest.next]

\* The shell evaluating one statement `export NAME="...";`: [ok, env].
StatementEval(stmt, env) ==
    LET n == Len(EXPORT_)
        j == NameEnd(stmt, n + 1)
        name == SubSeq(stmt, n + 1, j - 1)
        wellFormed == /\ Len(stmt) > n
                      /\ SubSeq(stmt, 1, n) = EXPORT_
                      /\ name /= <<>>
                      /\ name[1] \in NameStart
                      /\ j < Len(stmt)
                      /\ stmt[j] = "="
                      /\ stmt[j + 1] = DQ
        r == DqScan(stmt, j + 2, DQ, env)
    IN IF wellFormed /\ r.ok /\ r.next = Len(stmt) /\ stmt[r.next] = ";"
       THEN [ok |-> TRUE, env |-> (name :> r.val) @@ env]
       ELSE [ok |-> FALSE, env |-> env]

RECURSIVE EvalLines(_, _, _)
\* The shell evaluating the statements one after the other.
EvalLines(ls, k, st) ==
    IF k > Len(ls) \/ ~st.ok THEN st
    ELSE EvalLines(ls, k + 1, StatementEval(ls[k], st.env))

\* str::lines(): the pieces between newlines, without a final empty piece.
Lines(s) ==
    LET ends == {i \in 1..Len(s) : s[i] = NL}
                    \cup (IF s /= <<>> /\ s[Len(s)] /= NL THEN {Len(s) + 1} ELSE {})
        EndOf(k) == CHOOSE e \in ends : Cardinality({x \in ends : x < e}) = k - 1
    IN [k \in 1..Cardinality(ends) |->
            SubSeq(s, IF k = 1 THEN 1 ELSE EndOf(k - 1) + 1, EndOf(k) - 1)]

----------------------------------------------------------------------------
(* src/main.rs: the command line of `export`; src/db.rs: load_profile *)

\* The name of the profile AppState::new creates in an empty store.
DEFAULT == "default"

\* The --mode option was not given.
NoArg == "<absent>"

possible_values == {"prepend", "append", "replace"}

\* Variant: the option takes any string.
value_parser_any(token) == TRUE

\* value_parser = ["prepend", "append", "replace"]: the argument parser
\* accepts these tokens, compared exactly, and rejects every other.
value_parser(token) == token \in possible_values

\* Cli::parse for `export <profile> [--mode <token>]`: [ok, mode].
Cli_parse(token) ==
    IF token = NoArg THEN [ok |-> TRUE, mode |-> "prepend"]
    ELSE IF value_parser(token) THEN [ok |-> TRUE, mode |-> token]
    ELSE [ok |-> FALSE]

\* The match of main on mode.as_str().
op_mode(mode_str) ==
    CASE mode_str = "prepend" -> "Prepend"
      [] mode_str = "append" -> "Append"
      [] mode_str = "replace" -> "Replace"
      [] OTHER -> "Prepend"

\* EnvProfile { name, entries }.
EnvProfile(name, es) == [name |-> name, entries |-> es]

\* db::save_profile: INSERT OR REPLACE on the unique name.
save_profile(table, profile) == (profile.name :> profile.entries) @@ table

\* Variant: a name that is not stored is renamed to nothing, silently.
rename_profile_missing_ok(table, old_name, new_name) ==
    IF old_name \notin DOMAIN table
    THEN [ok |-> TRUE, err |-> <<>>, table |-> table]
    ELSE IF new_name /= old_name /\ new_name \in DOMAIN table
    THEN [ok |-> FALSE, err |-> <<"UNIQUE constraint failed: profiles.name">>,
          table |-> table]
    ELSE [ok |-> TRUE, err |-> <<>>,
          table |-> [n \in (DOMAIN table \ {old_name}) \cup {new_name} |->
                        IF n = new_name THEN table[old_name] ELSE table[n]]]

\* db::rename_profile: UPDATE profiles SET name = new WHERE name = old. No row
\* updated is the error 'profile not found'; a row of another profile with
\* the new name violates UNIQUE(name) and the statement fails as a whole.
rename_profile(table, old_name, new_name) ==
    IF old_name \notin DOMAIN table
    THEN [ok |-> FALSE, err |-> <<"profile not found: ", old_name>>, table |-> table]
    ELSE IF new_name /= old_name /\ new_name \in DOMAIN table
    THEN [ok |-> FALSE, err |-> <<"UNIQUE constraint failed: profiles.name">>,
          table |-> table]
    ELSE [ok |-> TRUE, err |-> <<>>,
          table |-> [n \in (DOMAIN table \ {old_name}) \cup {new_name} |->
                        IF n = new_name THEN table[old_name] ELSE table[n]]]

\* db::delete_profile: DELETE FROM profiles WHERE name = ?.
db_delete_profile(table, name) == [n \in DOMAIN table \ {name} |-> table[n]]

\* db::load_all_profiles: SELECT without ORDER BY, the rows in any order.
load_all_profiles(table) ==
    {s \in [1..Cardinality(DOMAIN table) ->
               {EnvProfile(n, table[n]) : n \in DOMAIN table}] :
        \A i, j \in DOMAIN s : i /= j => s[i].name /= s[j].name}

\* Variant: a missing profile is loaded as an empty one.
load_profile_or_empty(profile_name) ==
    IF profile_name \in DOMAIN profiles_table
    THEN [ok |-> TRUE, entries |-> profiles_table[profile_name]]
    ELSE [ok |-> TRUE, entries |-> <<>>]

\* db::load_profile: query_row fails when no row has the name.
load_profile(profile_name) ==
    IF profile_name \in DOMAIN profiles_table
    THEN [ok |-> TRUE, entries |-> profiles_table[profile_name]]
    ELSE [ok |-> FALSE]

----------------------------------------------------------------------------
(* src/tui/theme.rs: the configuration file and the theme *)

\* A character that takes two bytes in UTF-8 (such as U+00E9); every other
\* character of the model takes one.
TwoByteChar == "U+00E9"
len_utf8(c) == IF c = TwoByteChar THEN 2 ELSE 1

\* str::len: the length in bytes.
RECURSIVE byte_len(_)
byte_len(s) == IF s = <<>> THEN 0 ELSE len_utf8(Head(s)) + byte_len(Tail(s))

\* The byte offset at which the k-th character of s starts.
byte_offset(s, k) == byte_len(SubSeq(s, 1, k - 1))

\* &s[a..b]: a range of bytes; an end inside a character panics.
slice(s, a, b) ==
    LET is_char_boundary(x) == \E k \in 1..(Len(s) + 1) : byte_offset(s, k) = x
        first == CHOOSE k \in 1..(Len(s) + 1) : byte_offset(s, k) = a
        last == CHOOSE k \in 1..(Len(s) + 1) : byte_offset(s, k) = b
    IN IF is_char_boundary(a) /\ is_char_boundary(b)
       THEN [panic |-> FALSE, text |-> SubSeq(s, first, last - 1)]
       ELSE [panic |-> TRUE]

\* str::trim, for the white space of the model.
RECURSIVE trim_start(_)
trim_start(s) == IF s /= <<>> /\ Head(s) = " " THEN trim_start(Tail(s)) ELSE s
RECURSIVE trim_end(_)
trim_end(s) ==
    IF s /= <<>> /\ s[Len(s)] = " " THEN trim_end(SubSeq(s, 1, Len(s) - 1)) ELSE s
trim(s) == trim_end(trim_start(s))

HexDigits == <<"0", "1", "2", "3", "4", "5", "6", "7", "8", "9",
               "a", "b", "c", "d", "e", "f">>
UpperHexDigits == <<"0", "1", "2", "3", "4", "5", "6", "7", "8", "9",
                    "A", "B", "C", "D", "E", "F">>
is_hex_digit(c) == \E i \in 1..Len(HexDigits) : c \in {HexDigits[i], UpperHexDigits[i]}
hex_value(c) ==
    (CHOOSE i \in 1..Len(HexDigits) : c \in {HexDigits[i], UpperHexDigits[i]}) - 1

\* u8::from_str_radix(text, 16): an optional `+`, then digits; [ok, value].
RECURSIVE radix_value(_, _)
radix_value(digits, acc) ==
    IF digits = <<>> THEN acc
    ELSE radix_value(Tail(digits), acc * Len(HexDigits) + hex_value(Head(digits)))
from_str_radix(text) ==
    LET digits == IF text /= <<>> /\ Head(text) = "+" THEN Tail(text) ELSE text
    IN IF digits = <<>> \/ \E i \in 1..Len(digits) : ~is_hex_digit(digits[i])
       THEN [ok |-> FALSE]
       ELSE IF radix_value(digits, 0) >= Len(HexDigits) * Len(HexDigits)
       THEN [ok |-> FALSE]
       ELSE [ok |-> TRUE, value |-> radix_value(digits, 0)]

\* What a parser of colors returns: a color, an error, or a panic.
ColorOk(c) == [panic |-> FALSE, ok |-> TRUE, color |-> c]
ColorErr == [panic |-> FALSE, ok |-> FALSE]
ColorPanic == [panic |-> TRUE, ok |-> FALSE]

\* One channel of parse_hex_color: the slice &hex[a..b], repeated `times`
\* times, read as a hexadecimal u8.
channel(hex, a, b, times) ==
    LET sl == slice(hex, a, b) IN
    IF sl.panic THEN ColorPanic
    ELSE LET n == from_str_radix(IF times = 2 THEN sl.text \o sl.text ELSE sl.text)
         IN IF n.ok THEN ColorOk(n.value) ELSE ColorErr

\* The three channels in turn; the first that fails ends the function.
channels(hex, w, times) ==
    LET r == channel(hex, 0, w, times) IN
    IF ~r.ok THEN r
    ELSE LET g == channel(hex, w, 2 * w, times) IN
         IF ~g.ok THEN g
         ELSE LET b == channel(hex, 2 * w, 3 * w, times) IN
              IF ~b.ok THEN b
              ELSE ColorOk(<<"Rgb", r.color, g.color, b.color>>)

\* parse_hex_color: six bytes are three slices of two bytes, three bytes are
\* three slices of one byte, each doubled.
parse_hex_color(hex0) ==
    LET hex == trim(hex0) IN
    CASE byte_len(hex) = 6 -> channels(hex, 2, 1)
      [] byte_len(hex) = 3 -> channels(hex, 1, 2)
      [] OTHER -> ColorErr

\* str::split_whitespace.
RECURSIVE split_whitespace(_, _, _)
split_whitespace(s, word, acc) ==
    IF s = <<>> THEN (IF word = <<>> THEN acc ELSE Append(acc, word))
    ELSE IF Head(s) = " "
    THEN split_whitespace(Tail(s), <<>>, IF word = <<>> THEN acc ELSE Append(acc, word))
    ELSE split_whitespace(Tail(s), Append(word, Head(s)), acc)

\* str::parse::<f64>, for the numerals of the model: digits with at most one
\* point.
parse_f64(text) ==
    /\ \E i \in 1..Len(text) : text[i] \in {HexDigits[k] : k \in 1..10}
    /\ \A i \in 1..Len(text) : text[i] \in {HexDigits[k] : k \in 1..10} \cup {"."}
    /\ Cardinality({i \in 1..Len(text) : text[i] = "."}) <= 1

\* parse_oklch: three numbers, the first possibly a percentage. The color is
\* kept as the three numerals, the conversion to sRGB is not computed.
parse_oklch(inner) ==
    LET parts == split_whitespace(inner, <<>>, <<>>) IN
    IF Len(parts) < 3 THEN ColorErr
    ELSE LET l_s == parts[1]
             l == IF l_s /= <<>> /\ l_s[Len(l_s)] = "%"
                  THEN SubSeq(l_s, 1, Len(l_s) - 1) ELSE l_s
         IN IF parse_f64(l) /\ parse_f64(parts[2]) /\ parse_f64(parts[3])
            THEN ColorOk(<<"Oklch", l_s, parts[2], parts[3]>>)
            ELSE ColorErr

OKLCH_ == <<"o", "k", "l", "c", "h", "(">>

\* parse_css_color: `#` and hexadecimal digits, or oklch(...).
parse_css_color(s0) ==
    LET s == trim(s0) IN
    IF s = <<>> THEN ColorErr
    ELSE IF Head(s) = "#" THEN parse_hex_color(Tail(s))
    ELSE IF /\ Len(s) > Len(OKLCH_)
            /\ SubSeq(s, 1, Len(OKLCH_)) = OKLCH_
            /\ s[Len(s)] = ")"
    THEN parse_oklch(SubSeq(s, Len(OKLCH_) + 1, Len(s) - 1))
    ELSE ColorErr

\* None of an Option<String>, and of Option<ThemeSection>.
Absent == <<"<none>">>
NoSection == [some |-> FALSE]

\* ThemeSection, with two of its twenty colors, and BathConfig.
ThemeSection(preset, base_100, primary) ==
    [some |-> TRUE, preset |-> preset, base_100 |-> base_100, primary |-> primary]
ThemeSection_default == ThemeSection(Absent, Absent, Absent)
BathConfig(section) == [theme |-> section]
BathConfig_default == BathConfig(NoSection)

DRACULA == <<"d", "r", "a", "c", "u", "l", "a">>
LIGHT == <<"l", "i", "g", "h", "t">>

\* default_preset.
default_preset == DRACULA

\* daisyui_themes::THEMES: the presets, each with a name, a scheme and its
\* colors as CSS text.
THEMES ==
    <<[name |-> DRACULA, scheme |-> "Dark",
       colors |-> [base_100 |-> <<"#", "2", "8", "2", "a", "3", "6">>,
                   primary |-> <<"#", "f", "f", "7", "9", "c", "6">>]],
      [name |-> LIGHT, scheme |-> "Light",
       colors |-> [base_100 |-> <<"#", "f", "f", "f">>,
                   primary |-> <<"#", "5", "7", "0", "d", "f", "8">>]]>>

\* daisyui_themes::get: [found, item].
daisyui_themes_get(name) == find(THEMES, name)

\* load_config: no path and no file are the default configuration; a file
\* that cannot be read or parsed is an error.
load_config(file) ==
    CASE file.kind = "no_path" -> [ok |-> TRUE, cfg |-> BathConfig_default]
      [] file.kind = "not_found" -> [ok |-> TRUE, cfg |-> BathConfig_default]
      [] file.kind = "read_error" -> [ok |-> FALSE]
      [] file.kind = "parse_error" -> [ok |-> FALSE]
      [] OTHER -> [ok |-> TRUE, cfg |-> file.cfg]

\* The colors of resolve_theme in the order of the struct: the first that
\* fails ends the function. [panic, ok, theme].
theme_colors(def, base_100, primary) ==
    IF ~base_100.ok THEN [panic |-> base_100.panic, ok |-> FALSE]
    ELSE IF ~primary.ok THEN [panic |-> primary.panic, ok |-> FALSE]
    ELSE [panic |-> FALSE, ok |-> TRUE,
          theme |-> [name |-> def.name, scheme |-> def.scheme,
                     colors |-> [base_100 |-> base_100.color,
                                 primary |-> primary.color]]]

\* Each color is the override or the preset's, parsed.
theme_of(def, t) ==
    theme_colors(def,
        parse_css_color(IF t.base_100 = Absent THEN def.colors.base_100 ELSE t.base_100),
        parse_css_color(IF t.primary = Absent THEN def.colors.primary ELSE t.primary))

\* The preset asked for, else the default preset, else the first one.
theme_def(asked, default) ==
    IF asked.found THEN asked.item
    ELSE IF default.found THEN default.item
    ELSE THEMES[1]

\* The preset trimmed, the default one when nothing is left.
preset_name(trimmed) == IF trimmed = <<>> THEN default_preset ELSE trimmed

\* resolve_theme. [panic, ok, theme].
resolve_theme(preset, overrides) ==
    theme_of(theme_def(daisyui_themes_get(preset_name(trim(preset))),
                       daisyui_themes_get(default_preset)),
             IF overrides.some THEN overrides ELSE ThemeSection_default)

\* The preset of the section or the default one.
config_preset(section) ==
    IF section.some /\ section.preset /= Absent THEN section.preset ELSE default_preset

\* resolve_from_config: the theme of the preset with the overrides of the
\* section, and the preset as it was written. [panic, ok, theme, preset].
resolve_from_config(cfg) ==
    [preset |-> config_preset(cfg.theme)] @@
        resolve_theme(config_preset(cfg.theme), cfg.theme)

\* The theme of the default preset without overrides.
default_theme == resolve_theme(default_preset, NoSection)

----------------------------------------------------------------------------
(* src/tui/editor.rs: the state of the variable dialog *)

UpperCase == <<"A", "B", "C", "D", "E", "F", "G", "H", "I", "J", "K", "L", "M",
               "N", "O", "P", "Q", "R", "S", "T", "U", "V", "W", "X", "Y", "Z">>
LowerCase == <<"a", "b", "c", "d", "e", "f", "g", "h", "i", "j", "k", "l", "m",
               "n", "o", "p", "q", "r", "s", "t", "u", "v", "w", "x", "y", "z">>

\* str::to_lowercase, for the characters of the model.
to_lowercase(s) ==
    [i \in 1..Len(s) |->
        IF \E k \in 1..Len(UpperCase) : UpperCase[k] = s[i]
        THEN LowerCase[CHOOSE k \in 1..Len(UpperCase) : UpperCase[k] = s[i]]
        ELSE s[i]]

\* str::contains.
contains(s, pat) ==
    \E i \in 0..(Len(s) - Len(pat)) : SubSeq(s, i + 1, i + Len(pat)) = pat

\* Iterator::filter on a vector.
RECURSIVE filter_options(_, _)
filter_options(options, q) ==
    IF options = <<>> THEN <<>>
    ELSE IF contains(to_lowercase(Head(options).name), q)
    THEN <<Head(options)>> \o filter_options(Tail(options), q)
    ELSE filter_options(Tail(options), q)

\* None of Option<&Entry>.
NoEntry == [tag |-> "None"]

\* The text fields of the dialog for the entry it was opened with.
initial_fields(e) ==
    CASE e.tag = "None" ->
            [input |-> <<>>, path |-> <<>>, version |-> <<>>, tool |-> <<>>,
             focus |-> "Search"]
      [] e.tag = "Path" ->
            [input |-> <<>>, path |-> e.path, version |-> e.version, tool |-> e.program,
             focus |-> "Input"]
      [] OTHER ->
            [input |-> entry_value(e), path |-> <<>>, version |-> <<>>, tool |-> <<>>,
             focus |-> "Input"]

\* EnvVarEditorState::new: every option is listed; the option of the entry
\* the dialog was opened with is the selected one (counted from 0).
EnvVarEditorState_new(options, initial) ==
    [open |-> TRUE, last_call |-> "new",
     all_options |-> options,
     search |-> <<>>,
     filtered |-> options,
     selected |-> IF initial.tag /= "None" /\ find(options, var_name(initial)).found
                  THEN (CHOOSE i \in 1..Len(options) :
                            /\ options[i].name = var_name(initial)
                            /\ \A j \in 1..(i - 1) : options[j].name /= var_name(initial)) - 1
                  ELSE 0,
     active_input_field |-> 0,
     last_search |-> <<>>] @@ initial_fields(initial)

\* The options to list for a search text: those whose name has it, all of
\* them when none has.
filtered_for(options, q) ==
    IF filter_options(options, q) = <<>> THEN options ELSE filter_options(options, q)

\* Variant: the list is filtered and the selection reset at every call.
update_filter_every_call(s) ==
    [s EXCEPT !.last_search = s.search,
              !.filtered = filtered_for(s.all_options, to_lowercase(s.search)),
              !.selected = 0]

\* EnvVarEditorState::update_filter: nothing when the search text is the one
\* of the previous call.
update_filter(s) ==
    IF s.search = s.last_search THEN s
    ELSE [s EXCEPT !.last_search = s.search,
                   !.filtered = filtered_for(s.all_options, to_lowercase(s.search)),
                   !.selected = 0]

\* The selected option has the three fields of a path.
selected_is_path_part(s) ==
    /\ s.selected < Len(s.filtered)
    /\ s.filtered[s.selected + 1].editor = "PathPart"

is_path_part(opt) == opt.editor = "PathPart"

\* entry_from_state: the three path fields for the path editor, the variant
\* of a built-in name, or a custom scalar or part by the kind of the option.
entry_from_state(opt, s) ==
    IF is_path_part(opt) THEN PathEntry(s.path, s.tool, s.version)
    ELSE IF opt.name /= PATH /\ builtin_part_entry(opt.name, s.input).found
    THEN builtin_part_entry(opt.name, s.input).entry
    ELSE IF opt.kind = "Scalar" THEN CustomScalar(opt.name, s.input)
    ELSE CustomPart(opt.name, s.input, opt.separator)

\* The state of the dialog when a key ends it: opened on the options without
\* an entry, the search text and the fields as typed, drawn.
dialog_state(options, typed) ==
    update_filter([EnvVarEditorState_new(options, NoEntry)
                     EXCEPT !.search = typed.search, !.input = typed.input,
                            !.path = typed.path, !.version = typed.version,
                            !.tool = typed.tool])

\* What edit_env_var_dialog returns: None for Esc, for Enter the entry of
\* the selected option.
edit_env_var_dialog(options, typed) ==
    IF typed.key = "Esc" THEN NoEntry
    ELSE entry_from_state(dialog_state(options, typed).filtered[
                              dialog_state(options, typed).selected + 1],
                          dialog_state(options, typed))

----------------------------------------------------------------------------
(* Inputs *)

AVAR == <<"a">>
ProfileVars == {PATH, CFLAGS, CC, XVAR}

\* The entries add_env_var draws from: two variables with two parts each, values
\* with a quote, a backslash and a variable reference, an empty value, and
\* custom parts of one name that carry different separators.
EntryPool ==
    { PathEntry(<<"p">>, <<"t">>, <<"1">>),
      PathEntry(<<"q">>, <<"t">>, <<"2">>),
      CFlag(<<"o", DQ>>),
      CFlag(<<BS>>),
      CCEntry(<<DOLLAR, "a">>),
      CCEntry(<<>>),
      CustomScalar(XVAR, <<"s">>),
      CustomPart(XVAR, <<"b">>, <<";">>),
      CustomPart(XVAR, <<"c">>, <<>>),
      CustomPart(XVAR, <<"d">>, <<"}">>) }

\* The entries of the aggregation specification: PATH parts with different
\* labels, two values of the single-valued CC, a custom scalar, and custom
\* parts of one name whose separators are `;`, empty, and the backslash that
\* the quoting function doubles.
AggregatePool ==
    { PathEntry(<<"p">>, <<"t">>, <<"1">>),
      PathEntry(<<"q">>, <<"u">>, <<"2">>),
      CCEntry(<<"g", DQ>>),
      CCEntry(<<>>),
      CustomScalar(XVAR, <<"s">>),
      CustomPart(XVAR, <<"b">>, <<";">>),
      CustomPart(XVAR, <<"c">>, <<>>),
      CustomPart(XVAR, <<"f">>, <<BS>>) }

\* The characters a typed value is made of in the line specification.
LineAlphabet == {"a", BS, DQ, DOLLAR, "{", "}", BACKTICK}
LineValues == StringsUpTo(LineAlphabet, MaxValLen)
LineEntries == {CCEntry(v) : v \in LineValues}

\* One entry of every variant of Entry, and custom parts with five separators.
VariantValues == {<<"v">>, <<"w", " ">>}
VariantSeparators == {<<":">>, <<" ">>, <<";">>, <<",">>, <<>>}
VariantEntries(v) ==
    {PathEntry(v, <<"t">>, <<"1">>)}
        \cup {StringEntry(k, v) : k \in StringVariants}
        \cup {CustomScalar(XVAR, v)}
        \cup {CustomPart(XVAR, v, s) : s \in VariantSeparators}
\* The entry of the same variant with another value.
WithValue(e, w) ==
    IF e.tag = "Path" THEN [e EXCEPT !.path = w]
    ELSE IF e.tag \in StringVariants THEN [e EXCEPT !.s = w]
    ELSE [e EXCEPT !.value = w]

\* The definitions the dialog returns: a custom name defined as a list with
\* one of two separators or as a scalar (the dialog stores the empty separator
\* for a scalar), and definitions that take the name of a built-in.
YVAR == <<"Y">>
DefPool ==
    { CustomVarDef(XVAR, "List", <<";">>),
      CustomVarDef(XVAR, "List", <<",">>),
      CustomVarDef(XVAR, "Scalar", <<>>),
      CustomVarDef(PATH, "Scalar", <<>>),
      CustomVarDef(PATH, "List", <<";">>),
      CustomVarDef(CC, "List", <<";">>) }
\* The variables an item is dropped into, and the values of the items.
DropVars == {PATH, CC, XVAR, YVAR}
ItemValues == {<<"v">>}
\* What the store holds when the application starts.
StoredProfiles == {<<>>, <<CustomPart(YVAR, <<"u">>, <<";">>)>>}

\* The Parts view: the selected variable, what is typed into the dialog
\* before the key that ends it, the entries other views add and the
\* definitions of a custom variable.
PartVars == {PATH, CC, XVAR}
NothingTyped ==
    [key |-> "Esc", search |-> <<>>, input |-> <<>>, path |-> <<>>,
     version |-> <<>>, tool |-> <<>>]
Dialogs ==
    { NothingTyped,
      [NothingTyped EXCEPT !.key = "Enter", !.input = <<"v">>, !.path = <<"v">>,
                           !.version = <<"1">>, !.tool = <<"t">>],
      [NothingTyped EXCEPT !.key = "Enter", !.search = <<"z">>, !.input = <<"v">>,
                           !.path = <<"v">>, !.version = <<"1">>, !.tool = <<"t">>] }
PartsPool == {CCEntry(<<"g">>), CustomPart(XVAR, <<"u">>, <<";">>)}
PartsDefs == {CustomVarDef(XVAR, "Scalar", <<>>), CustomVarDef(XVAR, "List", <<",">>)}

\* The command line: the tokens given to --mode and the profile names.
ArgTokens == {NoArg, "prepend", "append", "replace", "Prepend", "bogus", ""}
ArgProfiles == {DEFAULT, "missing"}
CliPool == {PathEntry(<<"p">>, <<"t">>, <<"1">>), CFlag(<<"o", DQ>>),
            CustomPart(XVAR, <<"b">>, <<";">>)}
CliProfiles == UNION {[1..k -> CliPool] : k \in 0..2}

\* What the variables of the profile hold in the shell before the eval.
\* The profile specification: the names typed into the name dialog, the one
\* entry the profiles get, and the stores the application starts on.
OTHER_NAME == "work"
ProfileNames == {DEFAULT, OTHER_NAME}
ProfilePool == {CCEntry(<<"g">>)}
THIRD_NAME == "ci"
StoredTables ==
    { <<>>,
      (OTHER_NAME :> <<CCEntry(<<"g">>)>>) @@ (DEFAULT :> <<>>),
      (THIRD_NAME :> <<>>) @@ (OTHER_NAME :> <<CCEntry(<<"g">>)>>) @@ (DEFAULT :> <<>>) }

\* Moving parts: the store the application starts on, the variables that
\* can be selected, the definition saved under the name of a built-in
\* scalar.
MoveTables ==
    { (DEFAULT :> <<PathEntry(<<"p">>, <<"t">>, <<"1">>), CCEntry(<<"g">>)>>)
        @@ (OTHER_NAME :> <<CustomPart(XVAR, <<"u">>, <<";">>)>>) }
MoveVars == {PATH, XVAR}
MoveDefs == {CustomVarDef(CC, "List", <<";">>)}
MoveTable == CHOOSE table \in MoveTables : TRUE
DropTargets == {PATH, CC}

\* The theme specification: the texts written for a color, the presets
\* written, and what is found at the path of the configuration file.
ColorTexts ==
    {<<"#", "f", "f", "0", "0", "0", "0">>,
     <<" ", "#", "0", "F", "0">>,
     <<"#", "f", "f">>,
     <<"#", "g", "g", "0", "0", "0", "0">>,
     <<"r", "e", "d">>,
     <<>>,
     <<"#", TwoByteChar, "f", "0", "0", "0">>,
     <<"#", "1", TwoByteChar, "2", "3", "4">>,
     <<"o", "k", "l", "c", "h", "(", "5", "0", "%", " ", "0", ".", "2", " ", "9", ")">>,
     <<"o", "k", "l", "c", "h", "(", "5", "0", "%", ")">>}
PresetTexts == {DRACULA, LIGHT, <<" ">> \o LIGHT, <<"n", "o">>, <<>>}
ThemeSections ==
    {ThemeSection(p, b, c) : p \in PresetTexts \cup {Absent},
                             b \in ColorTexts \cup {Absent},
                             c \in ColorTexts \cup {Absent}}
ConfigFiles ==
    {[kind |-> k] : k \in {"no_path", "not_found", "read_error", "parse_error"}}
    \cup {[kind |-> "parsed", cfg |-> BathConfig(s)] : s \in ThemeSections \cup {NoSection}}

\* The editor specification: the characters typed and the entries the
\* dialog is opened with.
TypedChars == {"c", "P", "z"}
InitialEntries == {NoEntry, CCEntry(<<"g">>), PathEntry(<<"p">>, <<"t">>, <<"1">>)}

Existing == {"unset", <<>>, <<"e">>}
ShellEnv(existing) ==
    (IF existing = "unset" THEN <<>> ELSE [n \in ProfileVars |-> existing])
        @@ (AVAR :> <<"z">>) @@ (<<DOLLAR>> :> <<"7">>)

----------------------------------------------------------------------------
(* State machine *)

NoShell == <<>>
NotStarted == [mode |-> "-", profile |-> "-"]
NoEditor == [open |-> FALSE]
\* None of Option<Holding>.
NoHolding == [tag |-> "None"]
NoKey == [key |-> "-", index |-> 0, name |-> <<>>, ok |-> TRUE, err |-> <<>>, seq |-> 0]

\* The store holds the profile "default" with the entries es and it is the
\* only profile of the application.
OneProfile(es) ==
    /\ profiles = <<EnvProfile(DEFAULT, es)>>
    /\ profiles_table = (DEFAULT :> es)

\* AppState::new on a store without custom definitions.
InitCommon ==
    /\ active_profile_index = 1
    /\ pc = "edit"
    /\ mode = "none"
    /\ out = <<>>
    /\ stdout = <<>>
    /\ shell_before = NoShell
    /\ shell_after = NoShell
    /\ shell_ok = TRUE
    /\ custom_vars = <<>>
    /\ custom_var_defs = refresh_var_options(<<>>).custom_var_defs
    /\ var_options = refresh_var_options(<<>>).var_options
    /\ status = <<>>
    /\ argv = NotStarted
    /\ result = "none"
    /\ last_key = NoKey
    /\ config_file = [kind |-> "not_found"]
    /\ config = BathConfig_default
    /\ theme = default_theme.theme
    /\ theme_preset = default_preset
    /\ editor_state = NoEditor
    /\ holding = NoHolding

Init ==
    /\ OneProfile(<<>>)
    /\ InitCommon

\* AppState::add_env_var: push the entry and save the profile.
add_env_var(e) ==
    /\ pc = "edit"
    /\ Len(entries) < MaxEntries
    /\ profiles' = [profiles EXCEPT ![active_profile_index].entries = Append(@, e)]
    /\ profiles_table' = save_profile(profiles_table, profiles'[active_profile_index])
    /\ UNCHANGED <<tui_vars, active_profile_index, pc, mode, out, stdout, shell_vars, catalog_vars, cli_vars>>

\* export_profile: load the profile (an error ends the command), generate,
\* print unless empty.
export_profile(profile_name, m) ==
    LET loaded == load_profile(profile_name) IN
    /\ mode' = m
    /\ IF loaded.ok
       THEN /\ out' = generate_full_export(loaded.entries, m)
            /\ stdout' = print_export(out')
            /\ pc' = "exported"
            /\ result' = "ok"
       ELSE /\ pc' = "failed"
            /\ result' = "error"
            /\ UNCHANGED <<out, stdout>>
    /\ UNCHANGED <<tui_vars, profile_vars, shell_vars, catalog_vars>>

\* main for `export <profile_name> [--mode <token>]`: a token the argument
\* parser rejects ends the command before anything is loaded.
main(token, profile_name) ==
    /\ pc = "edit"
    /\ argv' = [mode |-> token, profile |-> profile_name]
    /\ LET cli == Cli_parse(token) IN
       IF cli.ok
       THEN export_profile(profile_name, op_mode(cli.mode))
       ELSE /\ pc' = "usage"
            /\ result' = "usage"
            /\ UNCHANGED <<tui_vars, profile_vars, mode, out, stdout, shell_vars, catalog_vars>>

\* generate_export_line on the entry added last (the editor's preview).
export_line(m) ==
    /\ pc = "edit"
    /\ entries /= <<>>
    /\ mode' = m
    /\ out' = generate_export_line(entries[Len(entries)], m)
    /\ pc' = "line"
    /\ UNCHANGED <<tui_vars, profile_vars, stdout, shell_vars, catalog_vars, cli_vars>>

\* The user's shell evaluates the printed statements (eval "$(bath export p)"),
\* or the statement of the preview.
shell_eval(existing) ==
    /\ pc \in {"exported", "line"}
    /\ LET text == IF pc = "exported" THEN stdout ELSE out
           r == EvalLines(Lines(text), 1, [ok |-> TRUE, env |-> ShellEnv(existing)])
       IN /\ shell_before' = ShellEnv(existing)
          /\ shell_after' = r.env
          /\ shell_ok' = r.ok
    /\ pc' = IF pc = "exported" THEN "evaluated" ELSE "line_evaluated"
    /\ UNCHANGED <<tui_vars, profile_vars, mode, out, stdout, catalog_vars, cli_vars>>

Next ==
    \/ \E e \in EntryPool : add_env_var(e)
    \/ \E t \in possible_values : main(t, DEFAULT)
    \/ \E m \in Modes : export_line(m)
    \/ \E x \in Existing : shell_eval(x)

Spec == Init /\ [][Next]_vars

\* The aggregation specification: profiles over AggregatePool, exported.
NextAggregate ==
    \/ \E e \in AggregatePool : add_env_var(e)
    \/ \E t \in possible_values : main(t, DEFAULT)

SpecAggregate == Init /\ [][NextAggregate]_vars

\* The line specification: one entry whose value ranges over every string of
\* LineAlphabet up to MaxValLen, rendered by generate_export_line and evaluated.
InitLine ==
    /\ \E e \in LineEntries : OneProfile(<<e>>)
    /\ InitCommon

NextLine ==
    \/ \E m \in Modes : export_line(m)
    \/ \E x \in Existing : shell_eval(x)

SpecLine == InitLine /\ [][NextLine]_vars

\* The variant specification: a profile of two entries of one variant, for
\* every variant of Entry, exported whole and previewed.
InitEntry ==
    /\ \E v \in VariantValues, w \in VariantValues :
          \E e \in VariantEntries(v) : OneProfile(<<e, WithValue(e, w)>>)
    /\ InitCommon

NextEntry ==
    \/ \E t \in possible_values : main(t, DEFAULT)
    \/ \E m \in Modes : export_line(m)

SpecEntry == InitEntry /\ [][NextEntry]_vars

\* Variant: saving a definition rewrites the separator of the stored parts of
\* that name.
new_var_rewrite_entries(def) ==
    /\ pc = "edit"
    /\ custom_vars' = save_custom_var_def(custom_vars, def)
    /\ custom_var_defs' = refresh_var_options(custom_vars').custom_var_defs
    /\ var_options' = refresh_var_options(custom_vars').var_options
    /\ status' = <<"saved var def: ", def.name>>
    /\ profiles' = [profiles EXCEPT ![active_profile_index].entries =
                      [i \in 1..Len(entries) |->
                          IF entries[i].tag = "CustomPart" /\ entries[i].name = def.name
                          THEN CustomPart(entries[i].name, entries[i].value, def.separator)
                          ELSE entries[i]]]
    /\ profiles_table' = save_profile(profiles_table, profiles'[active_profile_index])
    /\ UNCHANGED <<tui_vars, active_profile_index, pc, mode, out, stdout, shell_vars, cli_vars>>

\* The command new-var and the key C of the Defs view: the definition the
\* dialog returned is saved and the catalog is read again.
new_var(def) ==
    /\ pc = "edit"
    /\ custom_vars' = save_custom_var_def(custom_vars, def)
    /\ custom_var_defs' = refresh_var_options(custom_vars').custom_var_defs
    /\ var_options' = refresh_var_options(custom_vars').var_options
    /\ status' = <<"saved var def: ", def.name>>
    /\ UNCHANGED <<tui_vars, profile_vars, pc, mode, out, stdout, shell_vars, cli_vars>>

\* The key p of the Items view: the selected item is dropped into the
\* selected variable, unless that variable is a Scalar one.
drop_item(var, value) ==
    /\ pc = "edit"
    /\ var \in var_row_names(entries)
    /\ Len(entries) < MaxEntries
    /\ IF var_option_for(var).kind /= "List"
       THEN /\ status' = <<"cannot drop into scalar var">>
            /\ UNCHANGED profile_vars
       ELSE /\ profiles' = [profiles EXCEPT ![active_profile_index].entries =
                                Append(@, make_part_entry(var, value))]
            /\ profiles_table' = save_profile(profiles_table,
                                               profiles'[active_profile_index])
            /\ UNCHANGED active_profile_index
            /\ status' = <<"dropped into ", var>>
    /\ UNCHANGED <<tui_vars, pc, mode, out, stdout, shell_vars, cli_vars,
                   custom_vars, custom_var_defs, var_options>>

\* The catalog specification: definitions are saved (also again, with another
\* separator or kind, and under built-in names), items are dropped into the
\* variables of the rows, and the profile is exported. The store may already
\* hold a part of a variable that has no definition.
InitDefs ==
    /\ \E es \in StoredProfiles : OneProfile(es)
    /\ InitCommon

NextDefs ==
    \/ \E def \in DefPool : new_var(def)
    \/ \E var \in DropVars, value \in ItemValues : drop_item(var, value)
    \/ \E t \in possible_values : main(t, DEFAULT)

SpecDefs == InitDefs /\ [][NextDefs]_vars

\* The command-line specification: a stored profile, every mode token and a
\* profile name that is stored or not.
InitCli ==
    /\ \E es \in CliProfiles : OneProfile(es)
    /\ InitCommon

NextCli ==
    \/ \E token \in ArgTokens, profile_name \in ArgProfiles : main(token, profile_name)
    \/ \E x \in Existing : shell_eval(x)

SpecCli == InitCli /\ [][NextCli]_vars

\* ps without its i-th element (Vec::remove).
remove(ps, i) == [k \in 1..(Len(ps) - 1) |-> IF k < i THEN ps[k] ELSE ps[k + 1]]

\* AppState::add_profile: save, then push.
add_profile(profile) ==
    [profiles |-> Append(profiles, profile),
     table |-> save_profile(profiles_table, profile)]

\* Variant: the active index is left alone.
delete_profile_keep_index(index) ==
    IF Len(profiles) <= 1
    THEN [profiles |-> profiles, table |-> profiles_table,
          active |-> active_profile_index]
    ELSE IF index <= Len(profiles)
    THEN [profiles |-> remove(profiles, index),
          table |-> db_delete_profile(profiles_table, profiles[index].name),
          active |-> active_profile_index]
    ELSE [profiles |-> profiles, table |-> profiles_table,
          active |-> active_profile_index]

\* Variant: the last profile is deleted like any other.
delete_profile_also_last(index) ==
    IF index <= Len(profiles)
    THEN LET rest == remove(profiles, index) IN
         [profiles |-> rest,
          table |-> db_delete_profile(profiles_table, profiles[index].name),
          active |-> IF active_profile_index > Len(rest) /\ Len(rest) > 0
                     THEN Len(rest) ELSE active_profile_index]
    ELSE [profiles |-> profiles, table |-> profiles_table,
          active |-> active_profile_index]

\* AppState::delete_profile: nothing when one profile is left; otherwise the
\* profile is removed from the list, its name from the store, and an active
\* index beyond the end is moved to the last profile.
delete_profile(index) ==
    IF Len(profiles) <= 1
    THEN [profiles |-> profiles, table |-> profiles_table,
          active |-> active_profile_index]
    ELSE IF index <= Len(profiles)
    THEN LET rest == remove(profiles, index) IN
         [profiles |-> rest,
          table |-> db_delete_profile(profiles_table, profiles[index].name),
          active |-> IF active_profile_index > Len(rest)
                     THEN Len(rest) ELSE active_profile_index]
    ELSE [profiles |-> profiles, table |-> profiles_table,
          active |-> active_profile_index]

\* AppState::update_profile: the store is renamed first; its error returns
\* before the name in the list is touched.
update_profile(index, new_name) ==
    IF index <= Len(profiles)
    THEN LET r == rename_profile(profiles_table, profiles[index].name, new_name) IN
         IF r.ok
         THEN [ok |-> TRUE, err |-> <<>>, table |-> r.table,
               profiles |-> [profiles EXCEPT ![index].name = new_name]]
         ELSE [ok |-> FALSE, err |-> r.err, table |-> profiles_table,
               profiles |-> profiles]
    ELSE [ok |-> TRUE, err |-> <<>>, table |-> profiles_table, profiles |-> profiles]

\* What last_key records of a handled key.
Key(key, index, name, ok, err) ==
    [key |-> key, index |-> index, name |-> name, ok |-> ok, err |-> err,
     seq |-> 1 - last_key.seq]

\* The key A of the Profiles view: the name the dialog returned becomes a new
\* empty profile, which is made the active one.
key_A(new_name) ==
    /\ pc = "edit"
    /\ Len(profiles) < MaxProfiles
    /\ LET added == add_profile(EnvProfile(new_name, <<>>)) IN
          /\ profiles' = added.profiles
          /\ profiles_table' = added.table
          /\ active_profile_index' = Len(added.profiles)
    /\ status' = <<"added profile: ", new_name>>
    /\ last_key' = Key("A", 0, new_name, TRUE, <<>>)
    /\ UNCHANGED <<theme_vars, editor_state, holding, pc, mode, out, stdout, shell_vars, cli_vars,
                   custom_vars, custom_var_defs, var_options>>

\* The key E of the Profiles view on the selected profile: an error of
\* update_profile leaves the handler, and with it the application.
key_E(i, new_name) ==
    /\ pc = "edit"
    /\ i \in 1..Len(profiles)
    /\ LET current_name == profiles[i].name
           r == update_profile(i, new_name)
       IN /\ profiles' = r.profiles
          /\ profiles_table' = r.table
          /\ status' = IF r.ok
                       THEN <<"renamed profile: ", current_name, " -> ", new_name>>
                       ELSE status
          /\ pc' = IF r.ok THEN pc ELSE "failed"
          /\ last_key' = Key("E", i, new_name, r.ok, r.err)
    /\ UNCHANGED <<theme_vars, editor_state, holding, active_profile_index, mode, out, stdout,
                   shell_vars, cli_vars, custom_vars, custom_var_defs, var_options>>

\* The key D of the Profiles view on the selected profile, confirmed.
key_D(i) ==
    /\ pc = "edit"
    /\ i \in 1..Len(profiles)
    /\ LET name == profiles[i].name
           r == delete_profile(i)
       IN /\ profiles' = r.profiles
          /\ profiles_table' = r.table
          /\ active_profile_index' = r.active
          /\ status' = <<"deleted profile: ", name>>
          /\ last_key' = Key("D", i, name, TRUE, <<>>)
    /\ UNCHANGED <<theme_vars, editor_state, holding, pc, mode, out, stdout, shell_vars, cli_vars,
                   custom_vars, custom_var_defs, var_options>>

\* Enter in the Profiles view: the selected profile becomes the active one.
activate_selection(i) ==
    /\ pc = "edit"
    /\ i \in 1..Len(profiles)
    /\ active_profile_index' = i
    /\ status' = <<"profile: ", profiles[i].name>>
    /\ UNCHANGED <<tui_vars, profiles, profiles_table, pc, mode, out, stdout,
                   shell_vars, cli_vars, custom_vars, custom_var_defs, var_options>>

\* AppState::new: the profiles of the store, or the profile "default", saved,
\* when the store has none; the first profile is the active one.
AppState_new(table) ==
    /\ \E loaded \in load_all_profiles(table) :
          IF loaded = <<>>
          THEN /\ profiles = <<EnvProfile(DEFAULT, <<>>)>>
               /\ profiles_table = save_profile(table, EnvProfile(DEFAULT, <<>>))
          ELSE /\ profiles = loaded
               /\ profiles_table = table
    /\ InitCommon

\* The configuration of AppState::new: unwrap_or_default.
config_or_default(loaded) == IF loaded.ok THEN loaded.cfg ELSE BathConfig_default

\* The end of AppState::new with the configuration cfg and its theme resolved:
\* a theme that cannot be resolved is the theme of the default preset without
\* overrides, which is unwrapped; a panic ends the process.
AppState_new_with(cfg, resolved, fallback) ==
    IF resolved.panic \/ (~resolved.ok /\ ~fallback.ok)
    THEN /\ pc' = "panicked"
         /\ UNCHANGED <<config, theme, theme_preset>>
    ELSE /\ pc' = "edit"
         /\ config' = cfg
         /\ theme' = IF resolved.ok THEN resolved.theme ELSE fallback.theme
         /\ theme_preset' = IF resolved.ok THEN resolved.preset ELSE default_preset

\* AppState::new, its configuration and theme: a configuration that cannot be
\* loaded is the default one.
AppState_new_theme ==
    /\ pc = "starting"
    /\ AppState_new_with(config_or_default(load_config(config_file)),
                         resolve_from_config(config_or_default(load_config(config_file))),
                         default_theme)
    /\ UNCHANGED <<config_file, last_key, editor_state, holding, profile_vars, mode, out, stdout,
                   shell_vars, catalog_vars, cli_vars>>

\* The theme specification: the TUI starts with every configuration file of
\* ConfigFiles, and a profile is added once it runs.
NoTheme == [name |-> <<>>, scheme |-> "-", colors |-> [base_100 |-> <<>>, primary |-> <<>>]]

InitTheme ==
    /\ OneProfile(<<>>)
    /\ active_profile_index = 1
    /\ pc = "starting"
    /\ mode = "none"
    /\ out = <<>>
    /\ stdout = <<>>
    /\ shell_before = NoShell
    /\ shell_after = NoShell
    /\ shell_ok = TRUE
    /\ custom_vars = <<>>
    /\ custom_var_defs = refresh_var_options(<<>>).custom_var_defs
    /\ var_options = refresh_var_options(<<>>).var_options
    /\ status = <<>>
    /\ argv = NotStarted
    /\ result = "none"
    /\ last_key = NoKey
    /\ config_file \in ConfigFiles
    /\ config = BathConfig_default
    /\ theme = NoTheme
    /\ theme_preset = <<>>
    /\ editor_state = NoEditor
    /\ holding = NoHolding

NextTheme ==
    \/ AppState_new_theme
    \/ \E n \in ProfileNames : key_A(n)

SpecTheme == InitTheme /\ [][NextTheme]_vars

\* edit_env_var_dialog is opened with the options of the catalog.
open_editor(initial) ==
    /\ pc = "edit"
    /\ ~editor_state.open
    /\ editor_state' = EnvVarEditorState_new(var_options, initial)
    /\ UNCHANGED <<last_key, holding, theme_vars, profile_vars, pc, mode, out, stdout, shell_vars,
                   catalog_vars, cli_vars>>

\* The frame of a step inside the dialog.
InDialog ==
    /\ pc = "edit"
    /\ editor_state.open
    /\ UNCHANGED <<last_key, holding, theme_vars, profile_vars, pc, mode, out, stdout, shell_vars,
                   catalog_vars, cli_vars>>

\* One turn of the loop without a key: the draw closure calls update_filter.
editor_draw ==
    /\ InDialog
    /\ editor_state' = [update_filter(editor_state) EXCEPT !.last_call = "draw"]

\* A character: into the search text, which is filtered at once, or into the
\* field that has the focus.
editor_char(c) ==
    /\ InDialog
    /\ editor_state' =
          [(CASE editor_state.focus = "Search" ->
                    update_filter([editor_state EXCEPT !.search = Append(@, c)])
              [] editor_state.focus = "Options" -> editor_state
              [] OTHER ->
                    IF selected_is_path_part(editor_state)
                    THEN CASE editor_state.active_input_field = 0 ->
                                 [editor_state EXCEPT !.path = Append(@, c)]
                           [] editor_state.active_input_field = 1 ->
                                 [editor_state EXCEPT !.version = Append(@, c)]
                           [] OTHER -> [editor_state EXCEPT !.tool = Append(@, c)]
                    ELSE [editor_state EXCEPT !.input = Append(@, c)])
           EXCEPT !.last_call = "char"]

\* String::pop.
pop(s) == IF s = <<>> THEN s ELSE SubSeq(s, 1, Len(s) - 1)

\* Backspace, the reverse of a character.
editor_backspace ==
    /\ InDialog
    /\ editor_state' =
          [(CASE editor_state.focus = "Search" ->
                    update_filter([editor_state EXCEPT !.search = pop(@)])
              [] editor_state.focus = "Options" -> editor_state
              [] OTHER ->
                    IF selected_is_path_part(editor_state)
                    THEN CASE editor_state.active_input_field = 0 ->
                                 [editor_state EXCEPT !.path = pop(@)]
                           [] editor_state.active_input_field = 1 ->
                                 [editor_state EXCEPT !.version = pop(@)]
                           [] OTHER -> [editor_state EXCEPT !.tool = pop(@)]
                    ELSE [editor_state EXCEPT !.input = pop(@)])
           EXCEPT !.last_call = "backspace"]

\* Up and Down move the selection in the options, or the field of a path.
editor_up ==
    /\ InDialog
    /\ editor_state' =
          [(CASE editor_state.focus = "Options" ->
                    IF editor_state.selected > 0
                    THEN [editor_state EXCEPT !.selected = @ - 1] ELSE editor_state
              [] editor_state.focus = "Input" ->
                    IF selected_is_path_part(editor_state) /\ editor_state.active_input_field > 0
                    THEN [editor_state EXCEPT !.active_input_field = @ - 1] ELSE editor_state
              [] OTHER -> editor_state)
           EXCEPT !.last_call = "up"]

editor_down ==
    /\ InDialog
    /\ editor_state' =
          [(CASE editor_state.focus = "Options" ->
                    IF editor_state.selected + 1 < Len(editor_state.filtered)
                    THEN [editor_state EXCEPT !.selected = @ + 1] ELSE editor_state
              [] editor_state.focus = "Input" ->
                    IF selected_is_path_part(editor_state) /\ editor_state.active_input_field < 2
                    THEN [editor_state EXCEPT !.active_input_field = @ + 1] ELSE editor_state
              [] OTHER -> editor_state)
           EXCEPT !.last_call = "down"]

\* Tab moves the focus.
editor_tab ==
    /\ InDialog
    /\ editor_state' = [editor_state EXCEPT
                     !.focus = CASE @ = "Search" -> "Options"
                                 [] @ = "Options" -> "Input"
                                 [] OTHER -> "Search",
                     !.last_call = "tab"]

\* Esc leaves the dialog without an entry.
editor_esc ==
    /\ pc = "edit"
    /\ editor_state.open
    /\ editor_state' = NoEditor
    /\ UNCHANGED <<last_key, holding, theme_vars, profile_vars, pc, mode, out, stdout, shell_vars,
                   catalog_vars, cli_vars>>

\* The editor specification: the dialog is opened, with or without an entry,
\* and keys are typed in it: two characters of search text, one character
\* into the empty fields of the entry, and the selection down to the fourth
\* option.
NextEditor ==
    \/ \E initial \in InitialEntries : open_editor(initial)
    \/ editor_draw
    \/ \E c \in TypedChars :
          /\ editor_state.open
          /\ IF editor_state.focus = "Input"
             THEN /\ editor_state.input = <<>>
                  /\ editor_state.path = <<>>
                  /\ editor_state.version = <<>>
                  /\ editor_state.tool = <<>>
             ELSE Len(editor_state.search) < 2
          /\ editor_char(c)
    \/ editor_backspace
    \/ editor_up
    \/ editor_state.open /\ editor_state.selected < 3 /\ editor_down
    \/ editor_tab
    \/ editor_esc

SpecEditor == Init /\ [][NextEditor]_vars

\* select::current_var_parts: the entries of the variable, in stored order.
current_var_parts(es, var) == SelectSeq(es, LAMBDA e : var_name(e) = var)

\* Vec::insert before the element at position at (counted from 1).
insert(es, at, e) == SubSeq(es, 1, at - 1) \o <<e>> \o SubSeq(es, at, Len(es))

\* The removal loop of replace_var_parts: the indices from the last to the first.
RECURSIVE remove_rev(_, _)
remove_rev(es, idxs) ==
    IF idxs = {} THEN es
    ELSE remove_rev(remove(es, CHOOSE i \in idxs : \A j \in idxs : j <= i),
                    idxs \ {CHOOSE i \in idxs : \A j \in idxs : j <= i})

\* The insertion loop of replace_var_parts: part number offset at insert_at + offset.
RECURSIVE insert_from(_, _, _)
insert_from(es, at, parts) ==
    IF parts = <<>> THEN es
    ELSE insert_from(insert(es, at, Head(parts)), at + 1, Tail(parts))

\* Variant: the new parts always go to the end of the profile.
replace_var_parts_at_end(es, var, new_parts) ==
    SelectSeq(es, LAMBDA e : var_name(e) /= var) \o new_parts

\* AppState::replace_var_parts, on the entries of the active profile.
replace_var_parts(es, var, new_parts) ==
    LET idxs == {i \in 1..Len(es) : var_name(es[i]) = var}
    IN IF idxs = {} THEN es \o new_parts
       ELSE insert_from(remove_rev(es, idxs),
                        CHOOSE i \in idxs : \A j \in idxs : i <= j,
                        new_parts)

\* Variant: the new entry is pushed whatever the kind of the variable.
added_part_always_pushed(es, opt, var, new_entry) == Append(es, new_entry)

\* The key a of the Parts view, once the dialog returned an entry: a Scalar
\* variable is replaced by it, any other gets it pushed (add_env_var).
added_part(es, opt, var, new_entry) ==
    IF opt.kind = "Scalar" THEN replace_var_parts(es, var, <<new_entry>>)
    ELSE Append(es, new_entry)

\* What last_key records of a key of the Parts view: the variable, the
\* selected part and the entry the dialog returned.
PartsKey(key, var, sel, entry) ==
    Key(key, sel, var, entry.tag /= "None", <<>>) @@ [entry |-> entry]

\* The entries of the active profile are set and the profile is saved.
save_entries(es) ==
    /\ profiles' = [profiles EXCEPT ![active_profile_index].entries = es]
    /\ profiles_table' =
          save_profile(profiles_table, EnvProfile(profiles[active_profile_index].name, es))
    /\ UNCHANGED active_profile_index

\* The key a of the Parts view on the selected variable: the dialog is
\* opened on the option of that variable alone.
key_a_parts(var, typed) ==
    /\ pc = "edit"
    /\ var \in var_row_names(entries)
    /\ Len(entries) < MaxEntries
    /\ IF edit_env_var_dialog(<<var_option_for(var)>>, typed).tag = "None"
       THEN UNCHANGED <<profile_vars, status>>
       ELSE /\ save_entries(added_part(entries, var_option_for(var), var,
                               edit_env_var_dialog(<<var_option_for(var)>>, typed)))
            /\ status' = <<"added part to ", var>>
    /\ last_key' = PartsKey("a", var, 0, edit_env_var_dialog(<<var_option_for(var)>>, typed))
    /\ UNCHANGED <<theme_vars, editor_state, holding, pc, mode, out, stdout, shell_vars, cli_vars,
                   custom_vars, custom_var_defs, var_options>>

\* The key d of the Parts view: the selected part (counted from 0, no
\* filter typed) is taken out of the parts of the variable.
key_d_parts(var, sel) ==
    /\ pc = "edit"
    /\ var \in var_row_names(entries)
    /\ sel < Len(current_var_parts(entries, var))
    /\ save_entries(replace_var_parts(entries, var,
                        remove(current_var_parts(entries, var), sel + 1)))
    /\ status' = <<"deleted part from ", var>>
    /\ last_key' = PartsKey("d", var, sel, NoEntry)
    /\ UNCHANGED <<theme_vars, editor_state, holding, pc, mode, out, stdout, shell_vars, cli_vars,
                   custom_vars, custom_var_defs, var_options>>

\* The key y of the Parts view: the selected part is duplicated after itself.
key_y_parts(var, sel) ==
    /\ pc = "edit"
    /\ var \in var_row_names(entries)
    /\ Len(entries) < MaxEntries
    /\ sel < Len(current_var_parts(entries, var))
    /\ save_entries(replace_var_parts(entries, var,
                        insert(current_var_parts(entries, var), sel + 2,
                               current_var_parts(entries, var)[sel + 1])))
    /\ status' = <<"duplicated part in ", var>>
    /\ last_key' = PartsKey("y", var, sel, NoEntry)
    /\ UNCHANGED <<theme_vars, editor_state, holding, pc, mode, out, stdout, shell_vars, cli_vars,
                   custom_vars, custom_var_defs, var_options>>

\* The variable of the Parts view: a row of the Vars view, or the variable
\* selected when its last part was picked up.
selected_var(var) ==
    \/ var \in var_row_names(entries)
    \/ holding.tag = "Part" /\ holding.var = var

\* Holding::Item and Holding::Part.
HoldingItem(value) == [tag |-> "Item", value |-> value]
HoldingPart(var, from, entry) == [tag |-> "Part", var |-> var, from |-> from, entry |-> entry]

\* The key m of the Parts view: the selected part is taken out of the
\* variable and becomes the held object, whatever was held before.
key_m_parts(var, sel) ==
    /\ pc = "edit"
    /\ selected_var(var)
    /\ sel < Len(current_var_parts(entries, var))
    /\ save_entries(replace_var_parts(entries, var,
                        remove(current_var_parts(entries, var), sel + 1)))
    /\ holding' = HoldingPart(var, sel, current_var_parts(entries, var)[sel + 1])
    /\ status' = <<"moving part (navigate, p:drop, Esc:cancel)">>
    /\ last_key' = PartsKey("m", var, 0, NoEntry)
    /\ UNCHANGED <<theme_vars, editor_state, pc, mode, out, stdout, shell_vars, cli_vars,
                   custom_vars, custom_var_defs, var_options>>

\* The key m of the Items view: the selected item of the catalog becomes the
\* held object.
key_m_items(value) ==
    /\ pc = "edit"
    /\ holding' = HoldingItem(value)
    /\ status' = <<"picked item">>
    /\ last_key' = PartsKey("items:m", <<>>, 0, NoEntry)
    /\ UNCHANGED <<theme_vars, editor_state, profile_vars, pc, mode, out, stdout,
                   shell_vars, cli_vars, custom_vars, custom_var_defs, var_options>>

\* The text a held object is dropped with.
held_value(h) == IF h.tag = "Item" THEN h.value ELSE preview_value(h.entry)

\* The entry the key p of the Parts view inserts: made for the variable from
\* the text of the held object.
dropped_entry(h, var) == make_part_entry(var, held_value(h))

\* The key p of the Parts view: the held object goes into the parts of the
\* selected variable at the cursor (at the end without one), unless the
\* variable is not a List.
key_p_parts(var, sel) ==
    /\ pc = "edit"
    /\ selected_var(var)
    /\ Len(entries) < MaxEntries
    /\ IF var_option_for(var).kind /= "List"
       THEN /\ status' = <<"cannot drop into scalar var">>
            /\ last_key' = PartsKey("p", var, 0, NoEntry)
            /\ UNCHANGED <<profile_vars, holding>>
       ELSE IF holding.tag = "None"
       THEN /\ last_key' = PartsKey("p", var, 0, NoEntry)
            /\ UNCHANGED <<profile_vars, holding, status>>
       ELSE /\ save_entries(replace_var_parts(entries, var,
                   insert(current_var_parts(entries, var),
                          (IF sel < Len(current_var_parts(entries, var))
                           THEN sel ELSE Len(current_var_parts(entries, var))) + 1,
                          dropped_entry(holding, var))))
            /\ holding' = NoHolding
            /\ status' = IF holding.tag = "Item" THEN <<"dropped into ", var>>
                         ELSE <<"moved part into ", var>>
            /\ last_key' = PartsKey("p", var, 0, NoEntry)
    /\ UNCHANGED <<theme_vars, editor_state, pc, mode, out, stdout, shell_vars, cli_vars,
                   custom_vars, custom_var_defs, var_options>>

\* The key p of the Vars view on the selected row: a held item is pushed to
\* the variable of the row unless the row is not a List; a held part stays held.
key_p_vars(row) ==
    /\ pc = "edit"
    /\ row \in compute_var_rows(entries)
    /\ Len(entries) < MaxEntries
    /\ IF holding.tag /= "Item"
       THEN /\ last_key' = PartsKey("vars:p", row.name, 0, NoEntry)
            /\ UNCHANGED <<profile_vars, holding, status>>
       ELSE IF row.kind /= "List"
       THEN /\ status' = <<"cannot drop into scalar var">>
            /\ last_key' = PartsKey("vars:p", row.name, 0, NoEntry)
            /\ UNCHANGED <<profile_vars, holding>>
       ELSE /\ save_entries(Append(entries, make_part_entry(row.name, holding.value)))
            /\ holding' = NoHolding
            /\ status' = <<"dropped into ", row.name>>
            /\ last_key' = PartsKey("vars:p", row.name, 0, NoEntry)
    /\ UNCHANGED <<theme_vars, editor_state, pc, mode, out, stdout, shell_vars, cli_vars,
                   custom_vars, custom_var_defs, var_options>>

\* Esc on a held part: the part goes back into the parts of its variable in
\* the active profile, at the index it was picked from.
cancelled_entries(es, h) ==
    replace_var_parts(es, h.var,
        insert(current_var_parts(es, h.var),
               (IF h.from < Len(current_var_parts(es, h.var))
                THEN h.from ELSE Len(current_var_parts(es, h.var))) + 1,
               h.entry))

\* Esc in normal mode: holding.take(); a held part is put back, anything else
\* clears the status.
key_Esc ==
    /\ pc = "edit"
    /\ holding' = NoHolding
    /\ IF holding.tag = "Part"
       THEN /\ Len(entries) < MaxEntries
            /\ save_entries(cancelled_entries(entries, holding))
            /\ status' = <<"cancelled move">>
            /\ last_key' = PartsKey("Esc", <<>>, 0, NoEntry)
       ELSE /\ status' = <<>>
            /\ last_key' = PartsKey("Esc", <<>>, 0, NoEntry)
            /\ UNCHANGED profile_vars
    /\ UNCHANGED <<theme_vars, editor_state, pc, mode, out, stdout, shell_vars, cli_vars,
                   custom_vars, custom_var_defs, var_options>>

\* The key q: handle_key_event returns true and the application ends.
key_q ==
    /\ pc = "edit"
    /\ pc' = "quit"
    /\ last_key' = PartsKey("q", <<>>, 0, NoEntry)
    /\ UNCHANGED <<theme_vars, editor_state, holding, profile_vars, mode, out, stdout,
                   shell_vars, cli_vars, catalog_vars>>

\* The command `use <name>`: the first profile of that name becomes the
\* active one.
use_profile(name) ==
    /\ pc = "edit"
    /\ IF \E i \in 1..Len(profiles) : profiles[i].name = name
       THEN /\ active_profile_index' =
                  CHOOSE i \in 1..Len(profiles) :
                      /\ profiles[i].name = name
                      /\ \A j \in 1..(i - 1) : profiles[j].name /= name
            /\ status' = <<"profile: ", name>>
       ELSE /\ status' = <<"profile not found: ", name>>
            /\ UNCHANGED active_profile_index
    /\ UNCHANGED <<tui_vars, profiles, profiles_table, pc, mode, out, stdout, shell_vars,
                   cli_vars, custom_vars, custom_var_defs, var_options>>

\* The move specification: the application starts on a store of two
\* profiles; parts are picked up, dropped and put back, the other profile is
\* made the active one, and the application is left.
InitMove == \E table \in MoveTables : AppState_new(table)

NextMove ==
    \/ \E var \in MoveVars, sel \in 0..(MaxEntries - 1) : key_m_parts(var, sel)
    \/ \E var \in MoveVars, sel \in 0..(MaxEntries - 1) : key_p_parts(var, sel)
    \/ key_Esc
    \/ key_q
    \/ \E name \in ProfileNames : use_profile(name)
    \/ \E i \in 1..MaxProfiles : activate_selection(i)

SpecMove == InitMove /\ [][NextMove]_vars

\* The drop specification: the profile holds one scalar entry; items and
\* parts are picked up and dropped in the Parts and Vars views, and a
\* definition is saved under the name of a built-in scalar.
InitDrop ==
    /\ OneProfile(<<CCEntry(<<"g">>)>>)
    /\ InitCommon

NextDrop ==
    \/ \E value \in ItemValues : key_m_items(value)
    \/ \E var \in DropTargets, sel \in 0..(MaxEntries - 1) : key_m_parts(var, sel)
    \/ \E var \in DropTargets, sel \in 0..(MaxEntries - 1) : key_p_parts(var, sel)
    \/ \E name \in DropTargets, kind \in {"Scalar", "List"} :
          key_p_vars([name |-> name, kind |-> kind])
    \/ key_Esc
    \/ \E def \in MoveDefs : new_var(def)

SpecDrop == InitDrop /\ [][NextDrop]_vars

\* The Parts specification: the parts of the selected variable are added,
\* deleted and duplicated; other views push entries of a scalar variable
\* and of a variable without definition, and the definition of that
\* variable is saved as a scalar or as a list.
NextParts ==
    \/ \E var \in PartVars, typed \in Dialogs : key_a_parts(var, typed)
    \/ \E var \in PartVars, sel \in 0..(MaxEntries - 1) : key_d_parts(var, sel)
    \/ \E var \in PartVars, sel \in 0..(MaxEntries - 1) : key_y_parts(var, sel)
    \/ \E e \in PartsPool : add_env_var(e)
    \/ \E def \in PartsDefs : new_var(def)

SpecParts == Init /\ [][NextParts]_vars

\* The profile specification: the application starts on a store, profiles
\* are added, renamed, deleted and selected, and the active one gets entries.
InitProfiles == \E table \in StoredTables : AppState_new(table)

NextProfiles ==
    \/ \E n \in ProfileNames : key_A(n)
    \/ \E i \in 1..MaxProfiles, n \in ProfileNames : key_E(i, n)
    \/ \E i \in 1..MaxProfiles : key_D(i)
    \/ \E i \in 1..MaxProfiles : activate_selection(i)
    \/ \E n \in ProfileNames : use_profile(n)
    \/ \E e \in ProfilePool : entries = <<>> /\ add_env_var(e)

SpecProfiles == InitProfiles /\ [][NextProfiles]_vars

----------------------------------------------------------------------------
(* Vocabulary of the properties: the aggregation stated directly on the     *)
(* entry sequence, and the statement templates as the specification writes  *)
(* them.                                                                    *)

VarNames(es) == {var_name(es[i]) : i \in 1..Len(es)}

\* Position of the first entry of variable v.
FirstIdx(es, v) ==
    CHOOSE i \in 1..Len(es) :
        /\ var_name(es[i]) = v
        /\ \A j \in 1..(i - 1) : var_name(es[j]) /= v

\* The values of the entries of v, in stored order.
PartsOf(es, v) ==
    LET mine == SelectSeq(es, LAMBDA e : var_name(e) = v)
    IN [i \in 1..Len(mine) |-> entry_value(mine[i])]

\* The separator recorded for v: that of its first entry.
SepOf(es, v) == separator(es[FirstIdx(es, v)])

\* part1 sep part2 sep ... partN
Interleave(parts, sep) ==
    IF parts = <<>> THEN <<>>
    ELSE Concat([i \in 1..(2 * Len(parts) - 1) |->
                    IF i % 2 = 1 THEN parts[(i + 1) \div 2] ELSE sep])

Aggregated(es, v) == Interleave(PartsOf(es, v), SepOf(es, v))

\* The name between `export ` and the first `=` of a statement.
StmtVar(stmt) ==
    LET n == Len(EXPORT_)
        eqs == {i \in (n + 1)..Len(stmt) : stmt[i] = "="}
    IN IF eqs = {} \/ Len(stmt) < n \/ SubSeq(stmt, 1, n) /= EXPORT_ THEN <<"?">>
       ELSE SubSeq(stmt, n + 1, (CHOOSE i \in eqs : \A j \in eqs : i <= j) - 1)

\* export VAR="<q>${VAR:+<s>${VAR}}";
PrependForm(var, q, s) ==
    <<"e", "x", "p", "o", "r", "t", " ">> \o var \o <<"=", DQ>> \o q
        \o <<DOLLAR, "{">> \o var \o <<":", "+">> \o s
        \o <<DOLLAR, "{">> \o var \o <<"}", "}", DQ, ";">>

\* export VAR="${VAR:+${VAR}<s>}<q>";
AppendForm(var, q, s) ==
    <<"e", "x", "p", "o", "r", "t", " ">> \o var \o <<"=", DQ>>
        \o <<DOLLAR, "{">> \o var \o <<":", "+">>
        \o <<DOLLAR, "{">> \o var \o <<"}">> \o s \o <<"}">> \o q \o <<DQ, ";">>

\* export VAR="<q>";
ReplaceForm(var, q) ==
    <<"e", "x", "p", "o", "r", "t", " ">> \o var \o <<"=", DQ>> \o q \o <<DQ, ";">>

Contains(s, sub) ==
    \E i \in 0..(Len(s) - Len(sub)) : SubSeq(s, i + 1, i + Len(sub)) = sub

Exported == pc \in {"exported", "evaluated"}

----------------------------------------------------------------------------
(* Properties *)

\* C1: generate_full_export emits exactly one statement per distinct variable
\* name of the profile's entries, in every mode, and the statements come in
\* the order in which the names first occur in the entry sequence.
C1_OneStatementPerVariableInFirstSeenOrder ==
    Exported =>
        LET L == Lines(out) IN
        /\ Len(L) = Cardinality(VarNames(entries))
        /\ \A k \in 1..Len(L) : StmtVar(L[k]) \in VarNames(entries)
        /\ \A k, l \in 1..Len(L) :
              k < l => FirstIdx(entries, StmtVar(L[k])) < FirstIdx(entries, StmtVar(L[l]))

\* An exported profile whose first and third entries belong to one variable
\* and whose second entry belongs to another: two statements for three entries.
C1_Witness ==
    /\ pc = "exported"
    /\ Len(entries) = 3
    /\ var_name(entries[1]) = var_name(entries[3])
    /\ var_name(entries[1]) /= var_name(entries[2])
    /\ Len(Lines(out)) = 2

\* C2: the value in a variable's statement is the values of all its entries,
\* in stored order, joined by the variable's separator; entries of other
\* variables in between do not change that order.
C2_ValueIsPartsInStoredOrder ==
    Exported =>
        LET L == Lines(out) IN
        \A k \in 1..Len(L) :
            LET v == StmtVar(L[k]) IN
            /\ v \in VarNames(entries)
            /\ L[k] = export_assignment(v, Aggregated(entries, v), SepOf(entries, v), mode)

\* Two different parts of one variable with an entry of another variable
\* stored between them.
C2_Witness ==
    /\ pc = "exported"
    /\ \E i, j, k \in 1..Len(entries) :
          /\ i < j /\ j < k
          /\ var_name(entries[i]) = var_name(entries[k])
          /\ var_name(entries[j]) /= var_name(entries[i])
          /\ entry_value(entries[i]) /= entry_value(entries[k])

\* C3: in Prepend mode the statement of VAR with aggregated value v and
\* separator s is exactly export VAR="<quote(v)>${VAR:+<s>${VAR}}";
C3_PrependForm ==
    (Exported /\ mode = "Prepend") =>
        LET L == Lines(out) IN
        \A k \in 1..Len(L) :
            LET v == StmtVar(L[k]) IN
            /\ v \in VarNames(entries)
            /\ L[k] = PrependForm(v, shell_double_quote_literal(Aggregated(entries, v)),
                                  SepOf(entries, v))

\* Prepend export of a profile holding two PATH parts.
C3_Witness ==
    /\ pc = "exported"
    /\ mode = "Prepend"
    /\ Len(PartsOf(entries, PATH)) = 2

\* C4: in Append mode the statement of VAR with aggregated value v and
\* separator s is exactly export VAR="${VAR:+${VAR}<s>}<quote(v)>";
C4_AppendForm ==
    (Exported /\ mode = "Append") =>
        LET L == Lines(out) IN
        \A k \in 1..Len(L) :
            LET v == StmtVar(L[k]) IN
            /\ v \in VarNames(entries)
            /\ L[k] = AppendForm(v, shell_double_quote_literal(Aggregated(entries, v)),
                                 SepOf(entries, v))

\* Append export of a profile holding two PATH parts.
C4_Witness ==
    /\ pc = "exported"
    /\ mode = "Append"
    /\ Len(PartsOf(entries, PATH)) = 2

\* C5: in Replace mode the statement of VAR with aggregated value v is
\* exactly export VAR="<quote(v)>"; so it holds no reference to the existing
\* value and no separator outside the joined value.
C5_ReplaceForm ==
    (Exported /\ mode = "Replace") =>
        LET L == Lines(out) IN
        \A k \in 1..Len(L) :
            LET v == StmtVar(L[k]) IN
            /\ v \in VarNames(entries)
            /\ L[k] = ReplaceForm(v, shell_double_quote_literal(Aggregated(entries, v)))

\* Replace export of a profile with a value that needs escaping.
C5_Witness ==
    /\ pc = "exported"
    /\ mode = "Replace"
    /\ \E i \in 1..Len(entries) : \E c \in 1..Len(entry_value(entries[i])) :
          entry_value(entries[i])[c] = DQ

\* A value meant literally: it holds nothing the shell expands.
IsLiteral(v) == \A i \in 1..Len(v) : v[i] \notin {DOLLAR, BACKTICK}

\* What the claim expects a variable to hold after the eval.
Combined(m, new, s, old) ==
    IF old = <<>> THEN new
    ELSE IF m = "Prepend" THEN new \o s \o old
    ELSE old \o s \o new

\* C6: evaluating a Prepend or Append statement under POSIX ${VAR:+word}
\* semantics, for every aggregated value and separator: an unset or empty
\* variable becomes exactly the new value, a non-empty one becomes
\* new+sep+existing (Prepend) or existing+sep+new (Append). Values that hold a
\* variable reference are left out: they are expanded on purpose.
C6_EvaluatedValue ==
    (pc = "evaluated" /\ mode \in {"Prepend", "Append"}) =>
        \A v \in VarNames(entries) :
            IsLiteral(Aggregated(entries, v)) =>
                /\ shell_ok
                /\ EnvGet(shell_after, v) =
                      Combined(mode, Aggregated(entries, v), SepOf(entries, v),
                               EnvGet(shell_before, v))

\* The separators that hold no character with a meaning inside ${...}.
PlainSeparators == {<<":">>, <<" ">>, <<";">>, <<>>}

\* The same statement restricted to variables whose separator is plain.
EvaluatedValuePlainSeparator ==
    (pc = "evaluated" /\ mode \in {"Prepend", "Append"}) =>
        \A v \in VarNames(entries) :
            (/\ IsLiteral(Aggregated(entries, v))
             /\ \A w \in VarNames(entries) : SepOf(entries, w) \in PlainSeparators) =>
                /\ shell_ok
                /\ EnvGet(shell_after, v) =
                      Combined(mode, Aggregated(entries, v), SepOf(entries, v),
                               EnvGet(shell_before, v))

QuotedChar(c) ==
    CASE c = BS -> <<BS, BS>>
      [] c = DQ -> <<BS, DQ>>
      [] OTHER -> <<c>>

QuotedByChar(v) == Concat([i \in 1..Len(v) |-> QuotedChar(v[i])])

LineEntry == entries[Len(entries)]
LineValue == entry_value(LineEntry)

\* C7: quoting maps every character on its own: backslash to two backslashes,
\* double quote to backslash + double quote, every other character ($, {, }
\* and the grave accent included) to itself; so a $VAR or ${VAR} substring of
\* the value stands unchanged in the statement.
C7_QuotingIsPerCharacter ==
    pc \in {"line", "line_evaluated"} =>
        LET var == var_name(LineEntry)
            q == QuotedByChar(LineValue)
            s == separator(LineEntry)
        IN /\ out = CASE mode = "Prepend" -> PrependForm(var, q, s)
                      [] mode = "Append" -> AppendForm(var, q, s)
                      [] mode = "Replace" -> ReplaceForm(var, q)
           /\ \A ref \in {<<DOLLAR, "a">>, <<DOLLAR, "{", "a", "}">>} :
                 Contains(LineValue, ref) => Contains(out, ref)

\* A rendered value holding a backslash, a double quote and a $a reference.
C7_Witness ==
    /\ pc = "line"
    /\ Contains(LineValue, <<DOLLAR, "a">>)
    /\ Contains(LineValue, <<BS>>)
    /\ Contains(LineValue, <<DQ>>)

HasQuoteOrBackslash(v) == \E i \in 1..Len(v) : v[i] \in {DQ, BS}

C9_NoEntriesNoStatement ==
    Exported =>
        /\ \A v \in ProfileVars \ VarNames(entries) :
              /\ \A k \in 1..Len(Lines(out)) : StmtVar(Lines(out)[k]) /= v
              /\ ~Contains(stdout, EXPORT_ \o v \o <<"=">>)
              /\ (pc = "evaluated" /\ shell_ok) =>
                    /\ (v \in DOMAIN shell_after) = (v \in DOMAIN shell_before)
                    /\ EnvGet(shell_after, v) = EnvGet(shell_before, v)
        /\ entries = <<>> => (out = <<>> /\ stdout = <<>>)

\* The empty profile was exported.
C9_Witness ==
    /\ pc = "exported"
    /\ entries = <<>>

\* C10: every statement produced by generate_export_line or
\* generate_full_export, in each mode and for every value, ends with `;`.
C10_StatementsEndWithSemicolon ==
    pc \in {"exported", "line"} =>
        /\ pc = "line" => out /= <<>>
        /\ \A k \in 1..Len(Lines(out)) :
              LET stmt == Lines(out)[k] IN stmt /= <<>> /\ stmt[Len(stmt)] = ";"

\* A Replace line whose value ends with a backslash.
C10_Witness ==
    /\ pc = "line"
    /\ mode = "Replace"
    /\ LineValue /= <<>>
    /\ LineValue[Len(LineValue)] = BS

----------------------------------------------------------------------------
(* Properties of the aggregation: separators and single-valued variables *)

\* The statement template of a mode, as the specification writes it.
StatementForm(m, var, q, s) ==
    CASE m = "Prepend" -> PrependForm(var, q, s)
      [] m = "Append" -> AppendForm(var, q, s)
      [] m = "Replace" -> ReplaceForm(var, q)

\* The statements of out that assign v.
StatementsOf(v) == {k \in 1..Len(Lines(out)) : StmtVar(Lines(out)[k]) = v}

\* The only statement of out that assigns v.
StatementOf(v) == Lines(out)[CHOOSE k \in StatementsOf(v) : TRUE]

\* The entries of v, in stored order.
EntriesOf(es, v) == SelectSeq(es, LAMBDA e : var_name(e) = v)

\* es with the separator of every custom part that is not the first entry of
\* its name replaced by s.
LaterSeparators(es, s) ==
    [i \in 1..Len(es) |->
        IF es[i].tag = "CustomPart" /\ i /= FirstIdx(es, var_name(es[i]))
        THEN CustomPart(es[i].name, es[i].value, s)
        ELSE es[i]]

OtherSeparators == {<<":">>, <<",">>, <<>>}

\* C11: when the entries of one variable carry different separators, the
\* separator of the first entry of that name is the one that joins the parts
\* and the one inside ${VAR:+...}; the separators of later entries are
\* ignored (replacing them by any other separator leaves the output as it is).
C11_FirstEntrySeparatorWins ==
    Exported =>
        /\ \A v \in VarNames(entries) :
              LET s == separator(entries[FirstIdx(entries, v)]) IN
              /\ Cardinality(StatementsOf(v)) = 1
              /\ StatementOf(v) =
                    StatementForm(mode, v,
                        shell_double_quote_literal(Interleave(PartsOf(entries, v), s)), s)
        /\ \A s \in OtherSeparators :
              out = generate_full_export(LaterSeparators(entries, s), mode)

\* A Prepend export of several entries of X, the first a custom part, with
\* a custom part whose separator differs from that of the first.
C11_Witness ==
    /\ pc = "exported"
    /\ mode = "Prepend"
    /\ Len(EntriesOf(entries, XVAR)) >= 2
    /\ entries[FirstIdx(entries, XVAR)].tag = "CustomPart"
    /\ \E i \in 1..Len(entries) :
          /\ entries[i].tag = "CustomPart"
          /\ separator(entries[i]) /= separator(entries[FirstIdx(entries, XVAR)])

\* export VAR="<q>${VAR:+${VAR}}"; and export VAR="${VAR:+${VAR}}<q>";
\* the statements whose expansion holds no separator character at all.
BareExpansionForm(m, var, q) ==
    LET ref == <<DOLLAR, "{">> \o var \o <<":", "+", DOLLAR, "{">> \o var \o <<"}", "}">>
    IN CASE m = "Prepend" -> EXPORT_ \o var \o <<"=", DQ>> \o q \o ref \o <<DQ, ";">>
         [] m = "Append" -> EXPORT_ \o var \o <<"=", DQ>> \o ref \o q \o <<DQ, ";">>
         [] m = "Replace" -> EXPORT_ \o var \o <<"=", DQ>> \o q \o <<DQ, ";">>

\* C12: rendering never fails: the export of every profile, in every mode,
\* is a text with one statement per variable; for a variable
\* whose recorded separator is empty the value is the plain concatenation of
\* all its parts and the Prepend/Append expansion holds no separator character.
C12_EmptySeparatorConcatenates ==
    Exported =>
        /\ DOMAIN out = 1..Len(out)
        /\ Len(Lines(out)) = Cardinality(VarNames(entries))
        /\ \A v \in VarNames(entries) : Cardinality(StatementsOf(v)) = 1
        /\ \A v \in VarNames(entries) :
              SepOf(entries, v) = <<>> =>
                  /\ Cardinality(StatementsOf(v)) = 1
                  /\ StatementOf(v) =
                        BareExpansionForm(mode, v,
                            shell_double_quote_literal(Concat(PartsOf(entries, v))))

\* An Append export of a variable whose first entry declares the empty
\* separator and that has a second part.
C12_Witness ==
    /\ pc = "exported"
    /\ mode = "Append"
    /\ XVAR \in VarNames(entries)
    /\ SepOf(entries, XVAR) = <<>>
    /\ Len(PartsOf(entries, XVAR)) >= 2

\* The variants behind a Scalar-kind variable in the model.
ScalarVariants == {"CC", "CustomScalar"}

\* C13: a Scalar-kind variable that holds several entries is exported as one
\* statement whose value is all of its values, in stored order, joined by the
\* recorded separator (a space when the first entry is a scalar one); no
\* earlier value is dropped.
C13_ScalarEntriesAllJoined ==
    Exported =>
        \A v \in VarNames(entries) :
            (\E i \in 1..Len(entries) :
                var_name(entries[i]) = v /\ entries[i].tag \in ScalarVariants) =>
                LET mine == EntriesOf(entries, v)
                    vals == [i \in 1..Len(mine) |->
                                IF mine[i].tag = "CC" THEN mine[i].s ELSE mine[i].value]
                    s == IF mine[1].tag \in ScalarVariants THEN <<" ">>
                         ELSE mine[1].separator
                IN /\ Cardinality(StatementsOf(v)) = 1
                   /\ StatementOf(v) =
                         StatementForm(mode, v,
                             shell_double_quote_literal(Interleave(vals, s)), s)

\* A Replace export of a profile with two CC entries of different values.
C13_Witness ==
    /\ pc = "exported"
    /\ mode = "Replace"
    /\ \E i, j \in 1..Len(entries) :
          /\ i < j
          /\ entries[i].tag = "CC" /\ entries[j].tag = "CC"
          /\ entries[i].s /= entries[j].s

\* C14: in Prepend and Append statements the separator inside ${VAR:+...}
\* is the raw separator string, while the separators between the parts of
\* the joined value are quoted together with the value.
C14_ExpansionSeparatorIsRaw ==
    (Exported /\ mode \in {"Prepend", "Append"}) =>
        \A v \in VarNames(entries) :
            LET s == SepOf(entries, v)
                parts == PartsOf(entries, v)
                q == Interleave([i \in 1..Len(parts) |-> QuotedByChar(parts[i])],
                                QuotedByChar(s))
            IN /\ Cardinality(StatementsOf(v)) = 1
               /\ StatementOf(v) = StatementForm(mode, v, q, s)

\* A Prepend export of two parts joined by a backslash, the separator that
\* quoting doubles.
C14_Witness ==
    /\ pc = "exported"
    /\ mode = "Prepend"
    /\ XVAR \in VarNames(entries)
    /\ SepOf(entries, XVAR) = <<BS>>
    /\ Len(PartsOf(entries, XVAR)) >= 2

\* es with the program and version labels of every PATH entry replaced.
Relabel(es, program, version) ==
    [i \in 1..Len(es) |->
        IF es[i].tag = "Path" THEN PathEntry(es[i].path, program, version) ELSE es[i]]

Labels == {<<>>, <<"z">>, <<"9", " ">>}

\* C15: the output does not depend on the program and version labels of the
\* PATH entries: relabelling every PATH entry leaves the output of every mode
\* as it is, and the PATH statement holds exactly the paths.
C15_LabelsDoNotReachOutput ==
    Exported =>
        /\ \A program, version \in Labels :
              out = generate_full_export(Relabel(entries, program, version), mode)
        /\ PATH \in VarNames(entries) =>
              LET mine == EntriesOf(entries, PATH)
                  paths == [i \in 1..Len(mine) |-> mine[i].path]
              IN /\ Cardinality(StatementsOf(PATH)) = 1
                 /\ StatementOf(PATH) =
                       StatementForm(mode, PATH,
                           shell_double_quote_literal(Interleave(paths, <<":">>)), <<":">>)

\* An export of two PATH entries that carry different, non-empty labels.
C15_Witness ==
    /\ pc = "exported"
    /\ \E i, j \in 1..Len(entries) :
          /\ entries[i].tag = "Path" /\ entries[j].tag = "Path"
          /\ entries[i].version /= entries[j].version
          /\ entries[i].program /= <<>>

----------------------------------------------------------------------------
(* Properties of the variants, of the catalog and of the command line *)

PathLikeNames ==
    {PATH, CPATH, C_INCLUDE_PATH, CPLUS_INCLUDE_PATH, OBJC_INCLUDE_PATH,
     LIBRARY_PATH, LD_LIBRARY_PATH, LD_RUN_PATH}
FlagNames == {CPPFLAGS, CFLAGS, CXXFLAGS, LDFLAGS}
ScalarNames == {RANLIB, CC, CXX, AR, STRIP, GCC_EXEC_PREFIX, COLLECT_GCC_OPTIONS, LANG}
BuiltinNames == PathLikeNames \cup FlagNames \cup ScalarNames

IsCustom(e) == e.tag \in {"CustomScalar", "CustomPart"}

\* The text an entry carries, read from the field of its variant.
TextOf(e) ==
    IF e.tag = "Path" THEN e.path ELSE IF IsCustom(e) THEN e.value ELSE e.s

\* The separator the specification gives an entry.
ExpectedSeparator(e) ==
    IF e.tag = "CustomPart" THEN e.separator
    ELSE IF var_name(e) \in PathLikeNames THEN <<":">>
    ELSE <<" ">>

\* C16: Entry::separator is `:` for the eight path-like built-ins, one space
\* for the four flag built-ins and the stored separator for a CustomPart; the
\* statements of a two-part profile and of the preview are built with it.
C16_SeparatorOfEachVariant ==
    pc \in {"exported", "line"} =>
        \A i \in 1..Len(entries) :
            LET e == entries[i]
                s == ExpectedSeparator(e)
                texts == [j \in 1..Len(entries) |-> TextOf(entries[j])]
            IN (e.tag = "CustomPart" \/
                    (~IsCustom(e) /\ var_name(e) \in PathLikeNames \cup FlagNames)) =>
                /\ separator(e) = s
                /\ pc = "exported" =>
                      out = StatementForm(mode, var_name(e),
                                shell_double_quote_literal(Interleave(texts, s)), s)
                /\ pc = "line" =>
                      out = StatementForm(mode, var_name(e),
                                shell_double_quote_literal(TextOf(LineEntry)), s)

\* An Append export of two LD_RUN_PATH parts.
C16_Witness ==
    /\ pc = "exported"
    /\ mode = "Append"
    /\ Len(entries) = 2
    /\ var_name(entries[1]) = LD_RUN_PATH
    /\ var_name(entries[2]) = LD_RUN_PATH

\* The names the resolution is asked about: built-in, defined or not.
ResolvedNames == {PATH, CC, CFLAGS, XVAR, YVAR}
ProbeValue == <<"n">>

\* C17: a name is resolved by the built-ins first, then by the custom
\* definitions, then by the default List kind with `:`: a custom definition
\* under a built-in name is never used by var_option_for or make_part_entry,
\* and a name that is neither yields a colon-separated list part. So no
\* entry made by a drop is a custom entry of a built-in name.
C17_BuiltinsThenCustomThenDefault ==
    /\ \A name \in ResolvedNames :
          LET o == var_option_for(name)
              e == make_part_entry(name, ProbeValue)
          IN /\ o.name = name
             /\ var_name(e) = name
             /\ TextOf(e) = ProbeValue
             /\ IF name \in BuiltinNames
                THEN /\ ~IsCustom(e)
                     /\ o.kind = IF name \in ScalarNames THEN "Scalar" ELSE "List"
                     /\ o.separator = IF name \in PathLikeNames THEN <<":">>
                                      ELSE IF name \in FlagNames THEN <<" ">>
                                      ELSE <<>>
                ELSE IF name \in DOMAIN custom_vars
                THEN /\ (o.kind = "Scalar") <=> (custom_vars[name].kind = "scalar")
                     /\ (o.kind = "List") <=> (custom_vars[name].kind = "list")
                     /\ o.separator = custom_vars[name].separator
                     /\ e = IF custom_vars[name].kind = "scalar"
                            THEN CustomScalar(name, ProbeValue)
                            ELSE CustomPart(name, ProbeValue, custom_vars[name].separator)
                ELSE /\ o.kind = "List"
                     /\ o.separator = <<":">>
                     /\ e = CustomPart(name, ProbeValue, <<":">>)
    /\ \A i \in 1..Len(entries) : IsCustom(entries[i]) => var_name(entries[i]) \notin BuiltinNames

\* PATH is also defined as a custom Scalar, an item was dropped into PATH and
\* made a PATH entry, and an item dropped into the undefined Y made a part
\* with `:`.
C17_Witness ==
    /\ PATH \in DOMAIN custom_vars
    /\ custom_vars[PATH].kind = "scalar"
    /\ Len(entries) = 3
    /\ entries[2] = CustomPart(YVAR, <<"v">>, <<":">>)
    /\ entries[3].tag = "Path"
    /\ Len(status) = 2
    /\ status[2] = PATH

\* C18: a stored entry never changes: saving a definition (again, with
\* another separator or kind) leaves the entries as they are, a part made by
\* a drop copies the separator the definition has at that time, and the
\* export joins the parts of a variable with the separator stored on its
\* first entry, whatever the definition says now.
C18_StoredPartsKeepTheirSeparator ==
    /\ [][/\ Len(entries') >= Len(entries)
          /\ \A i \in 1..Len(entries) : entries'[i] = entries[i]
          /\ custom_vars' /= custom_vars => entries' = entries
          /\ Len(entries') > Len(entries) =>
                LET e == entries'[Len(entries')] IN
                (e.tag = "CustomPart" /\ e.name \in DOMAIN custom_vars) =>
                    e.separator = custom_vars[e.name].separator]_vars
    /\ [](Exported =>
            \A v \in VarNames(entries) :
                LET first == entries[FirstIdx(entries, v)]
                    mine == EntriesOf(entries, v)
                    texts == [j \in 1..Len(mine) |-> TextOf(mine[j])]
                IN first.tag = "CustomPart" =>
                    /\ Cardinality(StatementsOf(v)) = 1
                    /\ StatementOf(v) =
                          StatementForm(mode, v,
                              shell_double_quote_literal(Interleave(texts, first.separator)),
                              first.separator))

\* Two parts of X made under one definition were exported after X was
\* defined again with another separator or as a Scalar.
C18_Witness ==
    /\ pc = "exported"
    /\ XVAR \in DOMAIN custom_vars
    /\ Len(EntriesOf(entries, XVAR)) = 2
    /\ \A i \in 1..Len(entries) :
          var_name(entries[i]) = XVAR =>
              /\ entries[i].tag = "CustomPart"
              /\ (custom_vars[XVAR].kind = "scalar"
                    \/ custom_vars[XVAR].separator /= entries[i].separator)

\* main has taken the command line.
Started == argv /= NotStarted

\* The output is the export of the stored profile in mode m, printed.
ExportedIn(m) ==
    /\ pc \in {"exported", "evaluated"}
    /\ result = "ok"
    /\ mode = m
    /\ Len(Lines(out)) = Cardinality(VarNames(entries))
    /\ \A v \in VarNames(entries) :
          /\ Cardinality(StatementsOf(v)) = 1
          /\ StatementOf(v) =
                StatementForm(m, v, shell_double_quote_literal(Aggregated(entries, v)),
                              SepOf(entries, v))
    /\ stdout = IF out = <<>> THEN <<>> ELSE out \o <<NL>>

\* The mode a token of the command line stands for.
TokenMode(token) ==
    CASE token \in {NoArg, "prepend"} -> "Prepend"
      [] token = "append" -> "Append"
      [] token = "replace" -> "Replace"

ValidTokens == {NoArg, "prepend", "append", "replace"}

C20_MissingProfileIsAnError ==
    (Started /\ argv.profile \notin DOMAIN profiles_table /\ argv.mode \in ValidTokens) =>
        /\ pc = "failed"
        /\ result = "error"
        /\ out = <<>>
        /\ stdout = <<>>

\* A missing name was asked for while the store holds a profile with entries.
C20_Witness ==
    /\ pc = "failed"
    /\ argv.profile = "missing"
    /\ entries /= <<>>

----------------------------------------------------------------------------
(* Profiles: rename, delete, add *)

\* A step that handled a key of the Profiles view.
KeyStep(key) == last_key'.seq /= last_key.seq /\ last_key'.key = key
\* The key E was handled for the profile at index i, named old, with the new
\* name new.
RenameStep(i, old, new) ==
    /\ KeyStep("E")
    /\ last_key'.index = i
    /\ last_key'.name = new
    /\ i \in 1..Len(profiles)
    /\ profiles[i].name = old

\* C21: renaming a profile to a name that a different profile of the list
\* uses fails and leaves the list and the store as they were.
C21_RenameToUsedNameFails ==
    [][\A i \in 1..MaxProfiles : \A old, new \in ProfileNames :
          (/\ RenameStep(i, old, new)
           /\ old /= new
           /\ \E j \in 1..Len(profiles) : j /= i /\ profiles[j].name = new) =>
              /\ ~last_key'.ok
              /\ UNCHANGED <<profiles, profiles_table>>]_vars

\* C22: renaming a profile to the name it has succeeds and leaves the list
\* and the store as they were.
C22_RenameToOwnNameSucceeds ==
    [][\A i \in 1..MaxProfiles : \A old \in ProfileNames :
          RenameStep(i, old, old) =>
              /\ last_key'.ok
              /\ UNCHANGED <<profiles, profiles_table>>]_vars

\* C23: in the store, a rename from a stored name to a name that is not
\* stored succeeds, keeps the number of rows, makes the entries loadable under
\* the new name and the old name fail to load; a rename of a name that is not
\* stored fails with 'profile not found' and leaves the store as it was.
C23_RenameMovesTheRow ==
    [][\A i \in 1..MaxProfiles : \A old, new \in ProfileNames :
          RenameStep(i, old, new) =>
              /\ (old \in DOMAIN profiles_table /\ new \notin DOMAIN profiles_table) =>
                    /\ last_key'.ok
                    /\ Cardinality(DOMAIN profiles_table') =
                           Cardinality(DOMAIN profiles_table)
                    /\ load_profile(new)' = [ok |-> TRUE, entries |-> profiles_table[old]]
                    /\ ~load_profile(old)'.ok
              /\ old \notin DOMAIN profiles_table =>
                    /\ ~last_key'.ok
                    /\ last_key'.err = <<"profile not found: ", old>>
                    /\ UNCHANGED <<profiles, profiles_table>>]_vars

\* A rename to a new name went through, for a profile that has an entry.
C23_Witness ==
    /\ last_key.key = "E"
    /\ last_key.ok
    /\ last_key.name = OTHER_NAME
    /\ DOMAIN profiles_table = {OTHER_NAME}
    /\ profiles_table[OTHER_NAME] /= <<>>
    /\ status = <<"renamed profile: ", DEFAULT, " -> ", OTHER_NAME>>

\* C24: the profile list always holds a profile, and the key D on a list of
\* one profile changes neither the list, nor the active index, nor the store.
C24_ProfileListNeverEmpty ==
    /\ [](Len(profiles) >= 1)
    /\ [][(KeyStep("D") /\ Len(profiles) = 1) => UNCHANGED profile_vars]_vars

\* The key D was handled on the only profile, which is still listed and stored.
C24_Witness ==
    /\ last_key.key = "D"
    /\ Len(profiles) = 1
    /\ profiles[1].name = last_key.name
    /\ last_key.name \in DOMAIN profiles_table
    /\ profiles[1].entries /= <<>>

\* C25: no two profiles of the list have the same name (the rows of the store
\* are keyed by name).
C25_ProfileNamesAreUnique ==
    \A i, j \in 1..Len(profiles) : i /= j => profiles[i].name /= profiles[j].name

----------------------------------------------------------------------------
(* Custom definitions in the store *)

\* The definitions of the sequence defs that are named name.
Named(defs, name) == {k \in 1..Len(defs) : defs[k].name = name}

\* C26: definitions are stored by name: a saved definition is loaded back
\* with the same name, kind and separator, once, and saving under a stored
\* name replaces the definition of that name and leaves the others as they
\* were; the definitions the application holds have distinct names.
C26_DefinitionsAreKeyedByName ==
    /\ custom_var_defs = load_custom_var_defs(custom_vars)
    /\ \A i, j \in 1..Len(custom_var_defs) :
          i /= j => custom_var_defs[i].name /= custom_var_defs[j].name
    /\ \A def \in DefPool :
          LET loaded == load_custom_var_defs(save_custom_var_def(custom_vars, def))
          IN /\ Cardinality(Named(loaded, def.name)) = 1
             /\ \A k \in Named(loaded, def.name) : loaded[k] = def
             /\ Len(loaded) = Cardinality(DOMAIN custom_vars \cup {def.name})
             /\ \A i \in 1..Len(custom_var_defs) :
                   custom_var_defs[i].name /= def.name =>
                       \E k \in 1..Len(loaded) : loaded[k] = custom_var_defs[i]

\* X was saved as a List after other definitions, and is held once.
C26_Witness ==
    /\ Len(custom_var_defs) >= 2
    /\ status = <<"saved var def: ", XVAR>>
    /\ Cardinality(Named(custom_var_defs, XVAR)) = 1
    /\ \E k \in 1..Len(custom_var_defs) :
          custom_var_defs[k] = CustomVarDef(XVAR, "List", <<",">>)

----------------------------------------------------------------------------
(* Configuration and theme at startup *)

\* The color texts of ColorTexts that are colors, the others are malformed.
WellFormedColors ==
    {<<"#", "f", "f", "0", "0", "0", "0">>,
     <<" ", "#", "0", "F", "0">>,
     <<"o", "k", "l", "c", "h", "(", "5", "0", "%", " ", "0", ".", "2", " ", "9", ")">>}
Overrides(section) == {section.base_100, section.primary} \ {Absent}
\* The configuration file was parsed and has a theme section.
HasSection == config_file.kind = "parsed" /\ config_file.cfg.theme.some
MalformedOverride ==
    HasSection /\ Overrides(config_file.cfg.theme) \ WellFormedColors /= {}
UnknownPreset ==
    /\ HasSection
    /\ config_file.cfg.theme.preset \in {<<"n", "o">>}
\* An override that has a character of more than one byte.
WideOverride ==
    /\ HasSection
    /\ \E text \in Overrides(config_file.cfg.theme) :
          \E i \in 1..Len(text) : text[i] = TwoByteChar

\* What the claim says of a start that is over.
SurvivesThemeFailure ==
    /\ pc /= "panicked"
    /\ config_file.kind \in {"not_found", "read_error", "parse_error"} =>
          /\ config = BathConfig_default
          /\ theme = default_theme.theme
          /\ theme_preset = default_preset
    /\ UnknownPreset => (theme.name = default_preset /\ theme.scheme = "Dark")
    /\ MalformedOverride =>
          /\ theme = default_theme.theme
          /\ theme_preset = default_preset

\* C27: whatever the configuration file is (missing, unreadable, not
\* parseable, with an unknown preset or a malformed color), the application
\* state is built, with the default theme settings where the file failed.
C27_StartupSurvivesThemeFailures == pc /= "starting" => SurvivesThemeFailure

\* The same for every configuration whose overrides are made of one-byte
\* characters.
StartupSurvivesOneByteOverrides ==
    (pc /= "starting" /\ ~WideOverride) => SurvivesThemeFailure

----------------------------------------------------------------------------
(* The variable dialog *)

\* A step of the open dialog in which update_filter was called: a draw, or a
\* character or Backspace while the search text has the focus.
FilterCall ==
    /\ editor_state.open
    /\ editor_state'.open
    /\ \/ editor_state'.last_call = "draw"
       \/ editor_state'.last_call \in {"char", "backspace"} /\ editor_state.focus = "Search"

\* C28: a call of update_filter with the search text of the previous call
\* leaves the selected index and the filtered options as they are, and a call
\* changes the selected index only when the search text changed, to 0.
C28_UnchangedSearchKeepsSelection ==
    [][FilterCall =>
          /\ editor_state'.search = editor_state.last_search =>
                /\ editor_state'.selected = editor_state.selected
                /\ editor_state'.filtered = editor_state.filtered
          /\ editor_state'.selected /= editor_state.selected =>
                /\ editor_state'.search /= editor_state.last_search
                /\ editor_state'.selected = 0]_vars

\* The search text `c` lists more than two options, the third was selected
\* and the dialog was drawn again.
C28_Witness ==
    /\ editor_state.open
    /\ editor_state.last_call = "draw"
    /\ editor_state.search = <<"c">>
    /\ editor_state.last_search = <<"c">>
    /\ Len(editor_state.filtered) > 2
    /\ Len(editor_state.filtered) < Len(editor_state.all_options)
    /\ editor_state.selected = 2

----------------------------------------------------------------------------
(* The Parts view *)

\* A key of the Parts view was handled on the variable var.
PartsStep(key, var) ==
    /\ last_key'.seq /= last_key.seq
    /\ last_key'.key = key
    /\ last_key'.name = var

\* The entries of the other variables, in stored order.
OthersOf(es, var) == SelectSeq(es, LAMBDA e : var_name(e) /= var)

\* C29: in the Parts view, an entry added to a Scalar variable takes the
\* place of all entries of that variable, which has exactly that one entry
\* afterwards; an entry added to a List variable is appended to the end of
\* the active profile, all existing entries kept.
C29_ScalarAddReplacesListAddAppends ==
    [][\A var \in PartVars :
          PartsStep("a", var) /\ last_key'.ok =>
              /\ var_name(last_key'.entry) = var
              /\ IF var_option_for(var).kind = "Scalar"
                 THEN /\ current_var_parts(entries', var) = <<last_key'.entry>>
                      /\ OthersOf(entries', var) = OthersOf(entries, var)
                 ELSE entries' = Append(entries, last_key'.entry)]_vars

\* The variable X is defined as a scalar and the entry added to it stands
\* before an entry that another view pushed earlier: it took the place of
\* the parts X had before.
C29_Witness ==
    /\ last_key.key = "a"
    /\ last_key.ok
    /\ last_key.name = XVAR
    /\ var_option_for(XVAR).kind = "Scalar"
    /\ entries = <<CustomScalar(XVAR, <<"v">>), CCEntry(<<"g">>)>>

\* The parts a key of the Parts view hands to replace_var_parts.
NewParts(var) ==
    CASE last_key'.key = "a" -> <<last_key'.entry>>
      [] last_key'.key = "d" ->
            remove(current_var_parts(entries, var), last_key'.index + 1)
      [] last_key'.key = "y" ->
            insert(current_var_parts(entries, var), last_key'.index + 2,
                   current_var_parts(entries, var)[last_key'.index + 1])

\* A step that called replace_var_parts for var.
ReplaceStep(var) ==
    \/ PartsStep("d", var)
    \/ PartsStep("y", var)
    \/ PartsStep("a", var) /\ last_key'.ok /\ var_option_for(var).kind = "Scalar"

\* C30: replace_var_parts(var, new_parts) leaves no former entry of var in
\* the active profile; new_parts stand as one block at the index of the first
\* former entry of var, or at the end when var had none; the entries of the
\* other variables keep their values and order; the profile is saved.
C30_ReplaceVarParts ==
    [][\A var \in PartVars :
          ReplaceStep(var) =>
              /\ Len(entries') = Len(OthersOf(entries, var)) + Len(NewParts(var))
              /\ OthersOf(entries', var) = OthersOf(entries, var)
              /\ IF current_var_parts(entries, var) = <<>>
                 THEN entries' = entries \o NewParts(var)
                 ELSE SubSeq(entries', FirstIdx(entries, var),
                             FirstIdx(entries, var) + Len(NewParts(var)) - 1) = NewParts(var)
              /\ DEFAULT \in DOMAIN profiles_table'
              /\ profiles_table'[DEFAULT] = entries']_vars

\* A part of X was deleted while the profile held an entry of another
\* variable behind X's first part.
C30_Witness ==
    /\ last_key.key = "d"
    /\ last_key.name = XVAR
    /\ entries = <<CustomPart(XVAR, <<"u">>, <<";">>), CCEntry(<<"g">>)>>
    /\ profiles_table[DEFAULT] = entries

----------------------------------------------------------------------------
(* Moving items and parts *)

\* The key p drops what is held on the variable var: in the Parts view an
\* item or a part, in the Vars view an item.
DropStep(var) ==
    /\ last_key'.seq /= last_key.seq
    /\ last_key'.name = var
    /\ \/ last_key'.key = "p" /\ holding.tag /= "None"
       \/ last_key'.key = "vars:p" /\ holding.tag = "Item"

\* C31: a drop with p onto a Scalar variable is rejected: the status becomes
\* 'cannot drop into scalar var' and the entries of the profiles, the store
\* and the held object stay as they are.
C31_DropOntoScalarIsRejected ==
    [][\A var \in DropTargets :
          DropStep(var) /\ var_option_for(var).kind = "Scalar" =>
              /\ status' = <<"cannot drop into scalar var">>
              /\ UNCHANGED <<profiles, profiles_table, holding>>]_vars

\* The same for the Parts view alone.
DropOntoScalarIsRejectedInParts ==
    [][\A var \in DropTargets :
          DropStep(var) /\ last_key'.key = "p" /\ var_option_for(var).kind = "Scalar" =>
              /\ status' = <<"cannot drop into scalar var">>
              /\ UNCHANGED <<profiles, profiles_table, holding>>]_vars

\* An entry of some profile in memory, and of some stored profile.
InSomeProfile(e) ==
    \E i \in 1..Len(profiles) : \E k \in 1..Len(profiles[i].entries) :
        profiles[i].entries[k] = e
InSomeStoredProfile(e) ==
    \E name \in DOMAIN profiles_table : \E k \in 1..Len(profiles_table[name]) :
        profiles_table[name][k] = e

\* The step drops the held object with p or puts it back with Esc.
DropOrCancelStep ==
    /\ last_key'.seq /= last_key.seq
    /\ last_key'.key \in {"p", "Esc"}

\* C32: a part picked up with m is not lost: after any key but the p that
\* drops it and the Esc that cancels the move, the part is the held object
\* or an entry of a profile, and an entry of a stored profile once the
\* application has quit.
C32_HeldPartIsNeverLost ==
    [][holding.tag = "Part" /\ ~DropOrCancelStep =>
          /\ \/ holding'.tag = "Part" /\ holding'.entry = holding.entry
             \/ InSomeProfile(holding.entry)'
          /\ pc' = "quit" => InSomeStoredProfile(holding.entry)']_vars

\* The same while the application runs.
HeldPartIsKeptWhileRunning ==
    [][holding.tag = "Part" /\ ~DropOrCancelStep /\ pc' /= "quit" =>
          \/ holding'.tag = "Part" /\ holding'.entry = holding.entry
          \/ InSomeProfile(holding.entry)']_vars

\* C33: a pick with m followed at once by Esc leaves the export of the
\* active profile as it was before the pick, in every mode.
C33_PickThenCancelKeepsExport ==
    [][\A var \in MoveVars :
          PartsStep("m", var) =>
              \A m \in Modes :
                  generate_full_export(cancelled_entries(entries', holding'), m)
                      = generate_full_export(entries, m)]_vars

\* The same for the value of every variable: the parts and their order.
PickThenCancelKeepsParts ==
    [][\A var \in MoveVars :
          PartsStep("m", var) =>
              \A v \in MoveVars \cup {CC} :
                  current_var_parts(cancelled_entries(entries', holding'), v)
                      = current_var_parts(entries, v)]_vars

\* The key p dropped the held part into the variable it was picked from.
MoveWithinStep(var) ==
    /\ PartsStep("p", var)
    /\ holding.tag = "Part"
    /\ holding.var = var
    /\ holding' = NoHolding

\* C34: a part moved within one variable is dropped as the entry that was
\* picked, equal in every field.
C34_MovedPartIsTheSameEntry ==
    [][\A var \in MoveVars :
          MoveWithinStep(var) =>
              \E at \in 1..(Len(current_var_parts(entries, var)) + 1) :
                  current_var_parts(entries', var)
                      = insert(current_var_parts(entries, var), at, holding.entry)]_vars

\* The same for the text of the part.
MovedPartKeepsItsValue ==
    [][\A var \in MoveVars :
          MoveWithinStep(var) =>
              \E at \in 1..(Len(current_var_parts(entries, var)) + 1) :
                  [k \in 1..Len(current_var_parts(entries', var)) |->
                      preview_value(current_var_parts(entries', var)[k])]
                    = insert([k \in 1..Len(current_var_parts(entries, var)) |->
                                 preview_value(current_var_parts(entries, var)[k])],
                             at, preview_value(holding.entry))]_vars

\* A key that works on the parts of the active profile was handled.
PartOpStep ==
    /\ last_key'.seq /= last_key.seq
    /\ last_key'.key \in {"m", "p", "Esc"}

\* The texts of the parts the profile of that name was loaded with; no two
\* profiles of MoveTables have a text in common.
LoadedValues(name) ==
    {preview_value(MoveTable[name][k]) : k \in 1..Len(MoveTable[name])}

\* C35: a part operation changes only the profile that is active when the
\* key is pressed, in memory and in the store, and it puts no part into a
\* profile that the part was not picked from.
C35_PartOperationsStayInTheirProfile ==
    [][PartOpStep =>
          /\ Len(profiles') = Len(profiles)
          /\ \A i \in 1..Len(profiles) :
                i /= active_profile_index => profiles'[i] = profiles[i]
          /\ \A name \in DOMAIN profiles_table :
                name /= profiles[active_profile_index].name =>
                    /\ name \in DOMAIN profiles_table'
                    /\ profiles_table'[name] = profiles_table[name]
          /\ \A i \in 1..Len(profiles') : \A k \in 1..Len(profiles'[i].entries) :
                preview_value(profiles'[i].entries[k]) \in LoadedValues(profiles'[i].name)]_vars

\* The same without the origin of the part: only the active profile changes.
PartOperationsChangeTheActiveProfileOnly ==
    [][PartOpStep =>
          /\ Len(profiles') = Len(profiles)
          /\ \A i \in 1..Len(profiles) :
                i /= active_profile_index => profiles'[i] = profiles[i]
          /\ \A name \in DOMAIN profiles_table :
                name /= profiles[active_profile_index].name =>
                    /\ name \in DOMAIN profiles_table'
                    /\ profiles_table'[name] = profiles_table[name]]_vars

----------------------------------------------------------------------------
(* The active profile and the store *)

\* C36: active_profile_index is an index of the profile list after every
\* operation on the profiles.
C36_ActiveIndexIsValid ==
    /\ active_profile_index >= 1
    /\ active_profile_index <= Len(profiles)

\* The last profile of three was the active one or came after it, and the
\* key D deleted it.
C36_Witness ==
    /\ last_key.key = "D"
    /\ last_key.index = Len(profiles) + 1
    /\ Len(profiles) = 2
    /\ active_profile_index = Len(profiles)

\* C37: the key D on a profile that is not the active one leaves the active
\* profile the same profile, name and entries.
C37_DeleteKeepsTheActiveProfile ==
    [][KeyStep("D") /\ last_key'.index /= active_profile_index
                    /\ Len(profiles') < Len(profiles) =>
          profiles'[active_profile_index'] = profiles[active_profile_index]]_vars

\* The same for a deleted profile that stands behind the active one.
DeleteBehindKeepsTheActiveProfile ==
    [][KeyStep("D") /\ last_key'.index > active_profile_index
                    /\ Len(profiles') < Len(profiles) =>
          profiles'[active_profile_index'] = profiles[active_profile_index]]_vars

\* C38: the stored profiles, as a map from name to entries, are the profiles
\* of the list.
C38_StoreMirrorsMemory ==
    /\ DOMAIN profiles_table = {profiles[i].name : i \in 1..Len(profiles)}
    /\ \A i \in 1..Len(profiles) :
          /\ profiles[i].name \in DOMAIN profiles_table
          /\ profiles_table[profiles[i].name] = profiles[i].entries

\* No two profiles of the list have the same name.
UniqueNames ==
    \A i, j \in 1..Len(profiles) : profiles[i].name = profiles[j].name => i = j

\* A step from a list of unique names that the store mirrors to a list of
\* unique names leaves the store mirroring the list.
MirrorIsKeptWhileNamesAreUnique ==
    [][C38_StoreMirrorsMemory /\ UniqueNames /\ UniqueNames' =>
          C38_StoreMirrorsMemory']_vars

====
